---- MODULE Spec2Model ----
(***************************************************************************)
(* Model of the Vector Sort node of sverchok                               *)
(* (src/nodes/vector/vertices_sort.py): the helper functions distK,        *)
(* pop_lower_level, find_limits, sort_vertices_by_connexions and the       *)
(* methods SvVertSortNode.mode_change and SvVertSortNode.process.          *)
(*                                                                         *)
(* Python lists are sequences; a Python index i (0-based) of a list s is   *)
(* the element s[i + 1].  Indices that appear in the data (edges, Item     *)
(* order, limits) keep their Python values.  A raised exception is the     *)
(* field err of a result ("" when nothing was raised).                     *)
(***************************************************************************)
EXTENDS Integers, Sequences, FiniteSets, TLC

\* ------------------------------------------------------------------ bounds
\* points of a batch given to sort_vertices_by_connexions
MaxConnexVerts == 5
\* edges of a batch given to sort_vertices_by_connexions
MaxEdges == 3
\* points plus edge endpoints of a batch given to sort_vertices_by_connexions
MaxConnexSize == 11
\* points of a batch given to process
MaxVerts == 3
\* points of a batch of a call that is followed to its return
MaxFairVerts == 3
\* points plus edge endpoints of such a batch
MaxFairSize == 9
\* batches of points, of edges and of keys of a keyed run of process
MaxBatches == 2
\* times the mode is set in a run of the node
MaxModeChanges == 1

\* ------------------------------------------------------- Python list helpers
\* s[i] for a valid non-negative index
At(s, i) == s[i + 1]

\* whether s[i] raises no IndexError for a list of length n (negative indices count from the end)
PyOk(i, n) == i >= 0 - n /\ i < n

\* the position s[i] reads, for an index that is PyOk
PyPos(i, n) == IF i < 0 THEN i + n ELSE i

\* x in s
Contains(s, x) == \E k \in 1..Len(s) : s[k] = x

\* s.index(x) for x in s: the first position holding x
IndexOf(s, x) == CHOOSE k \in 0..(Len(s) - 1) : s[k + 1] = x /\ \A m \in 1..k : s[m] # x

\* s after s.pop(k)
Pop(s, k) == [m \in 1..(Len(s) - 1) |-> IF m <= k THEN s[m] ELSE s[m + 1]]

\* [0, 1, ..., n-1]
Range(n) == [m \in 1..n |-> m - 1]

\* ------------------------------------------------------------ pop_lower_level
\* edges_copy = [edges0, edges1, edges_index] as a record of three parallel lists
pop_lower_level(a, index) ==
    [edges0 |-> Pop(a.edges0, index),
     edges1 |-> Pop(a.edges1, index),
     edges_index |-> Pop(a.edges_index, index)]

\* ---------------------------------------------------------------- find_limits
\* CountEdges that notes side 0 for the second endpoint too
RECURSIVE CountEdges_FirstSide(_, _, _)
CountEdges_FirstSide(v_count, edges_in, i) ==
    IF i >= Len(edges_in) THEN v_count
    ELSE LET e == At(edges_in, i)
             n == Len(v_count)
             a == PyPos(e[1], n) + 1
             c1 == [v_count EXCEPT ![a] = <<@[1] + 1, 0, i>>]
             b == PyPos(e[2], n) + 1
             c2 == [c1 EXCEPT ![b] = <<@[1] + 1, 0, i>>]
         IN CountEdges_FirstSide(c2, edges_in, i + 1)

\* one pass of the loop over the edges: v_count[p] is <<count, side, edge>>
RECURSIVE CountEdges(_, _, _)
CountEdges(v_count, edges_in, i) ==
    IF i >= Len(edges_in) THEN v_count
    ELSE LET e == At(edges_in, i)
             n == Len(v_count)
             a == PyPos(e[1], n) + 1
             c1 == [v_count EXCEPT ![a] = <<@[1] + 1, 0, i>>]
             b == PyPos(e[2], n) + 1
             c2 == [c1 EXCEPT ![b] = <<@[1] + 1, 1, i>>]
         IN CountEdges(c2, edges_in, i + 1)

\* every endpoint of every edge can index a list of n points
EdgesInRange(edges_in, n) ==
    \A k \in 1..Len(edges_in) : PyOk(edges_in[k][1], n) /\ PyOk(edges_in[k][2], n)

\* LimitsOf that takes every point an edge touches for a limit
RECURSIVE LimitsOf_Touched(_, _)
LimitsOf_Touched(v_count, i) ==
    IF i >= Len(v_count) THEN <<>>
    ELSE LET v == At(v_count, i)
         IN (IF v[1] >= 1 THEN <<(<<i, v[2], v[3]>>)>> ELSE <<>>)
            \o LimitsOf_Touched(v_count, i + 1)

\* the tuples (point, side, edge) of the points counted once, in point order
RECURSIVE LimitsOf(_, _)
LimitsOf(v_count, i) ==
    IF i >= Len(v_count) THEN <<>>
    ELSE LET v == At(v_count, i)
         IN (IF v[1] = 1 THEN <<(<<i, v[2], v[3]>>)>> ELSE <<>>) \o LimitsOf(v_count, i + 1)

find_limits(verts_in, edges_in) ==
    IF ~EdgesInRange(edges_in, Len(verts_in))
    THEN [err |-> "IndexError", limits |-> <<>>]
    ELSE [err |-> "",
          limits |-> LimitsOf(CountEdges([m \in 1..Len(verts_in) |-> <<0, 0, 0>>], edges_in, 0), 0)]

\* ------------------------------------------------ sort_vertices_by_connexions
NoWalk == [verts_out |-> <<>>, edges_out |-> <<>>, index |-> <<>>,
           edges_copy |-> [edges0 |-> <<>>, edges1 |-> <<>>, edges_index |-> <<>>],
           limiting |-> FALSE, limits |-> <<>>, ed_index |-> 0, or_side |-> 0,
           j |-> 0, popped |-> <<>>, err |-> ""]

\* the state after "prepare data and arrays" and "start point", before the loop
WalkStart(verts_in, edges_in, limit_mode) ==
    LET fl == IF limit_mode THEN find_limits(verts_in, edges_in)
              ELSE [err |-> "", limits |-> <<>>]
        limiting == limit_mode /\ Len(fl.limits) > 0
        edges_copy == [edges0 |-> [k \in 1..Len(edges_in) |-> edges_in[k][1]],
                       edges1 |-> [k \in 1..Len(edges_in) |-> edges_in[k][2]],
                       edges_index |-> Range(Len(edges_in))]
        ed_index == IF limiting THEN fl.limits[1][3] ELSE 0
        base == [verts_out |-> <<>>, edges_out |-> <<>>, index |-> <<>>,
                 edges_copy |-> edges_copy, limiting |-> limiting,
                 limits |-> IF limiting THEN Tail(fl.limits) ELSE fl.limits,
                 ed_index |-> ed_index,
                 or_side |-> IF limiting THEN fl.limits[1][2] ELSE 0,
                 j |-> 0, popped |-> <<>>, err |-> ""]
    IN IF \E k \in 1..Len(edges_in) : Len(edges_in[k]) < 2
       THEN [NoWalk EXCEPT !.err = "IndexError"]
       ELSE IF fl.err # "" THEN [base EXCEPT !.err = fl.err]
       ELSE IF Len(edges_in) = 0 THEN [base EXCEPT !.err = "IndexError"]
       ELSE [base EXCEPT !.edges_copy = pop_lower_level(edges_copy, ed_index),
                         !.popped = <<ed_index>>]

\* the passes k, k+1, ... of "for side in e": the point of the side is appended
\* to verts_out, and the side to index, unless a point with the same
\* coordinates is in verts_out already; ed gets the place of the point
RECURSIVE EmitSides(_, _, _, _, _, _)
EmitSides(verts_out, index, ed, verts_in, e, k) ==
    IF k > Len(e) THEN [verts_out |-> verts_out, index |-> index, ed |-> ed]
    ELSE LET p == At(verts_in, PyPos(e[k], Len(verts_in)))
             seen == Contains(verts_out, p)
             vo == IF seen THEN verts_out ELSE Append(verts_out, p)
             ix == IF seen THEN index ELSE Append(index, e[k])
         IN EmitSides(vo, ix, Append(ed, IndexOf(vo, p)), verts_in, e, k + 1)

\* EmitEdge that gives every side the last place of verts_out, without
\* looking the point up
EmitEdge_LastPlaces(verts_out, index, verts_in, e) ==
    LET em == EmitSides(verts_out, index, <<>>, verts_in, e, 1)
    IN [em EXCEPT !.ed = [k \in 1..Len(e) |->
                            Len(EmitSides(verts_out, index, <<>>, verts_in, SubSeq(e, 1, k), 1).verts_out) - 1]]

\* the inner loop "for side in e", over every reference of the entry
EmitEdge(verts_out, index, verts_in, e) == EmitSides(verts_out, index, <<>>, verts_in, e, 1)

\* FindNext with the direction of the edge forgotten when the walk enters it
\* by its second endpoint
FindNext_NoFlip(st, v_index) ==
    IF Contains(st.edges_copy.edges0, v_index)
    THEN LET k == IndexOf(st.edges_copy.edges0, v_index)
         IN [st EXCEPT !.ed_index = At(st.edges_copy.edges_index, k), !.or_side = 0,
                       !.popped = Append(@, At(st.edges_copy.edges_index, k)),
                       !.edges_copy = pop_lower_level(@, k)]
    ELSE IF Contains(st.edges_copy.edges1, v_index)
    THEN LET k == IndexOf(st.edges_copy.edges1, v_index)
         IN [st EXCEPT !.ed_index = At(st.edges_copy.edges_index, k), !.or_side = 0,
                       !.popped = Append(@, At(st.edges_copy.edges_index, k)),
                       !.edges_copy = pop_lower_level(@, k)]
    ELSE st

\* FindNext that searches the second endpoints before the first ones
FindNext_SecondFirst(st, v_index) ==
    IF Contains(st.edges_copy.edges1, v_index)
    THEN LET k == IndexOf(st.edges_copy.edges1, v_index)
         IN [st EXCEPT !.ed_index = At(st.edges_copy.edges_index, k), !.or_side = 1,
                       !.popped = Append(@, At(st.edges_copy.edges_index, k)),
                       !.edges_copy = pop_lower_level(@, k)]
    ELSE IF Contains(st.edges_copy.edges0, v_index)
    THEN LET k == IndexOf(st.edges_copy.edges0, v_index)
         IN [st EXCEPT !.ed_index = At(st.edges_copy.edges_index, k), !.or_side = 0,
                       !.popped = Append(@, At(st.edges_copy.edges_index, k)),
                       !.edges_copy = pop_lower_level(@, k)]
    ELSE st

\* "find next edge": the first remaining edge whose first endpoint is v_index,
\* else the first one whose second endpoint is
FindNext(st, v_index) ==
    IF Contains(st.edges_copy.edges0, v_index)
    THEN LET k == IndexOf(st.edges_copy.edges0, v_index)
         IN [st EXCEPT !.ed_index = At(st.edges_copy.edges_index, k), !.or_side = 0,
                       !.popped = Append(@, At(st.edges_copy.edges_index, k)),
                       !.edges_copy = pop_lower_level(@, k)]
    ELSE IF Contains(st.edges_copy.edges1, v_index)
    THEN LET k == IndexOf(st.edges_copy.edges1, v_index)
         IN [st EXCEPT !.ed_index = At(st.edges_copy.edges_index, k), !.or_side = 1,
                       !.popped = Append(@, At(st.edges_copy.edges_index, k)),
                       !.edges_copy = pop_lower_level(@, k)]
    ELSE st

\* UnvisitedLimits with the list read from its end
UnvisitedLimits_FromEnd(st) ==
    LET u == SelectSeq(st.limits, LAMBDA lim : ~Contains(st.index, lim[1]))
    IN [m \in 1..Len(u) |-> u[Len(u) + 1 - m]]

\* the limits whose point is not in index yet
UnvisitedLimits(st) == SelectSeq(st.limits, LAMBDA lim : ~Contains(st.index, lim[1]))

\* Restart that takes the first remaining edge whether limits are in use or not
Restart_FirstEdge(st) ==
    [st EXCEPT !.ed_index = At(st.edges_copy.edges_index, 0), !.or_side = 0,
               !.popped = Append(@, At(st.edges_copy.edges_index, 0)),
               !.edges_copy = pop_lower_level(@, 0)]

\* "if not found take next point or next limit"
Restart(st) ==
    IF ~st.limiting
    THEN [st EXCEPT !.ed_index = At(st.edges_copy.edges_index, 0), !.or_side = 0,
                    !.popped = Append(@, At(st.edges_copy.edges_index, 0)),
                    !.edges_copy = pop_lower_level(@, 0)]
    ELSE IF UnvisitedLimits(st) = <<>> THEN st
    ELSE LET lim == UnvisitedLimits(st)[1]
             found == Contains(st.edges_copy.edges0, lim[1]) \/ Contains(st.edges_copy.edges1, lim[1])
             k == IF Contains(st.edges_copy.edges0, lim[1])
                  THEN IndexOf(st.edges_copy.edges0, lim[1])
                  ELSE IndexOf(st.edges_copy.edges1, lim[1])
         IN IF ~found THEN [st EXCEPT !.ed_index = lim[3], !.or_side = lim[2], !.err = "ValueError"]
            ELSE [st EXCEPT !.ed_index = lim[3], !.or_side = lim[2],
                            !.popped = Append(@, At(st.edges_copy.edges_index, k)),
                            !.edges_copy = pop_lower_level(@, k)]

\* one iteration of "for j in range(edges_len)"
WalkStep(verts_in, edges_in, st) ==
    LET e0 == At(edges_in, st.ed_index)
        e == IF st.or_side = 1 THEN <<e0[2], e0[1]>> ELSE e0
        n == Len(verts_in)
    IN IF \E k \in 1..Len(e) : ~PyOk(e[k], n) THEN [st EXCEPT !.err = "IndexError"]
       ELSE LET em == EmitEdge(st.verts_out, st.index, verts_in, e)
                s1 == [st EXCEPT !.verts_out = em.verts_out, !.index = em.index,
                                 !.edges_out = Append(@, em.ed), !.j = @ + 1]
                s2 == FindNext(s1, e[2])
            IN IF s2.ed_index = st.ed_index /\ Len(s2.edges_copy.edges0) > 0
               THEN Restart(s2) ELSE s2

\* "add unconnected vertices"
RECURSIVE AppendMissing(_, _, _, _)
AppendMissing(verts_out, index, verts_in, i) ==
    IF i >= Len(verts_in) THEN [verts_out |-> verts_out, index |-> index]
    ELSE IF Contains(verts_out, At(verts_in, i))
         THEN AppendMissing(verts_out, index, verts_in, i + 1)
         ELSE AppendMissing(Append(verts_out, At(verts_in, i)), Append(index, i), verts_in, i + 1)

AddUnconnected(verts_in, st) ==
    IF Len(st.verts_out) # Len(verts_in)
    THEN LET r == AppendMissing(st.verts_out, st.index, verts_in, 0)
         IN [st EXCEPT !.verts_out = r.verts_out, !.index = r.index]
    ELSE st

\* the whole loop, from a state of the walk
RECURSIVE WalkLoop(_, _, _)
WalkLoop(verts_in, edges_in, st) ==
    IF st.err # "" \/ st.j >= Len(edges_in) THEN st
    ELSE WalkLoop(verts_in, edges_in, WalkStep(verts_in, edges_in, st))

\* lines 133-141 on the state the loop ends in: the points no edge names are
\* added, and the three lists returned
ReturnedLists(verts_in, st) ==
    LET fin == IF st.err = "" THEN AddUnconnected(verts_in, st) ELSE st
    IN [verts_out |-> fin.verts_out, edges_out |-> fin.edges_out, index |-> fin.index,
        err |-> fin.err]

\* the call: (verts_out, edges_out, index), or the exception raised
sort_vertices_by_connexions(verts_in, edges_in, limit_mode) ==
    ReturnedLists(verts_in, WalkLoop(verts_in, edges_in, WalkStart(verts_in, edges_in, limit_mode)))

\* ------------------------------------------------------------------- sorted()
\* Python compares tuples lexicographically; every sort key is a tuple of numbers
LexLess(a, b) == \E k \in 1..Len(a) : a[k] < b[k] /\ \A m \in 1..(k - 1) : a[m] = b[m]

\* the 0-based place of element i after a stable sort on keys (reverse=True
\* sorts descending and still keeps elements with equal keys in their order)
Rank(keys, i, rev) ==
    Cardinality({j \in 1..Len(keys) :
                    IF rev THEN LexLess(keys[i], keys[j]) ELSE LexLess(keys[j], keys[i])})
    + Cardinality({j \in 1..(i - 1) : keys[j] = keys[i]})

\* sorted() that sorts ascending and turns the list round for reverse=True,
\* which turns round the elements with equal keys too
sorted_TurnedRound(s, keys, rev) ==
    [m \in 1..Len(s) |->
        s[CHOOSE i \in 1..Len(s) :
            Rank(keys, i, FALSE) = (IF rev THEN Len(s) - m ELSE m - 1)]]

\* sorted(s, key=..., reverse=rev), keys[m] being the key of s[m]
sorted(s, keys, rev) ==
    [m \in 1..Len(s) |-> s[CHOOSE i \in 1..Len(s) : Rank(keys, i, rev) = m - 1]]

\* reversed(s), read once
reversed(s) == [m \in 1..Len(s) |-> s[Len(s) + 1 - m]]

\* ----------------------------------------------------------------------- distK
\* distK without the squares: sum(i[0]-i[1] for i in zip(v1, v2))
distK_Unsquared(v1, v2) == (v1[1] - v2[1]) + (v1[2] - v2[2]) + (v1[3] - v2[3])

distK(v1, v2) ==
    (v1[1] - v2[1]) * (v1[1] - v2[1]) + (v1[2] - v2[2]) * (v1[2] - v2[2])
    + (v1[3] - v2[3]) * (v1[3] - v2[3])

\* ------------------------------------------- the three results of one batch
\* the original index an item of s_v carries: item[-1]
ItemIndex(item) == item[Len(item)]

\* v_index built the wrong way round: {j: item[-1] for j, item in enumerate(s_v)}
v_index_Forward(s_v) == [n \in 0..(Len(s_v) - 1) |-> ItemIndex(s_v[n + 1])]

\* v_index = {item[-1]: j for j, item in enumerate(s_v)}
v_index(s_v) ==
    [n \in {ItemIndex(s_v[m]) : m \in 1..Len(s_v)} |->
        (CHOOSE m \in 1..Len(s_v) :
            ItemIndex(s_v[m]) = n /\ \A q \in (m + 1)..Len(s_v) : ItemIndex(s_v[q]) # n) - 1]

\* no lookup v_index[n] raises KeyError
RefsKnown(s_v, p) ==
    \A k \in 1..Len(p) : \A r \in 1..Len(p[k]) : p[k][r] \in DOMAIN v_index(s_v)

\* [list(map(lambda n: v_index[n], pe)) for pe in p]
RemapPoly(s_v, p) == [k \in 1..Len(p) |-> [r \in 1..Len(p[k]) |-> v_index(s_v)[p[k][r]]]]

\* [i[-1] for i in s_v]
OrderOf(s_v) == [m \in 1..Len(s_v) |-> ItemIndex(s_v[m])]

\* what one pass of a sorting loop appends to verts_out, poly_edge_out and
\* item_order: verts is the batch's new vertex list, s_v what the later
\* statements still read from s_v
BatchOut(verts, s_v, p, poly_output, order_output) ==
    IF poly_output /\ ~RefsKnown(s_v, p)
    THEN [err |-> "KeyError", verts |-> <<>>, poly |-> <<>>, order |-> <<>>]
    ELSE [err |-> "", verts |-> <<verts>>,
          poly |-> IF poly_output THEN <<RemapPoly(s_v, p)>> ELSE <<>>,
          order |-> IF order_output THEN <<OrderOf(s_v)>> ELSE <<>>]

\* ((e[0], e[1], e[2], i) for i, e in enumerate(v))
Enumerate3(v) == [m \in 1..Len(v) |-> <<v[m][1], v[m][2], v[m][3], m - 1>>]

\* [v[:3] for v in s_v]
First3(s_v) == [m \in 1..Len(s_v) |-> <<s_v[m][1], s_v[m][2], s_v[m][3]>>]

\* ------------------------------------------------------------------ mode XYZ
\* op_order with the flags of x and z exchanged
op_order_Swapped(rx, ry, rz) == <<(<<0, rz>>), (<<1, ry>>), (<<2, rx>>)>>

\* op_order = [(0, self.reverse_x), (1, self.reverse_y), (2, self.reverse_z)]
op_order(rx, ry, rz) == <<(<<0, rx>>), (<<1, ry>>), (<<2, rz>>)>>

\* for item_index, rev in op_order: s_v = sorted(s_v, key=itemgetter(item_index), reverse=rev)
RECURSIVE SortPasses(_, _)
SortPasses(s_v, ops) ==
    IF ops = <<>> THEN s_v
    ELSE SortPasses(sorted(s_v, [m \in 1..Len(s_v) |-> <<s_v[m][Head(ops)[1] + 1]>>], Head(ops)[2]),
                    Tail(ops))

SortXYZ(v, rx, ry, rz) == SortPasses(Enumerate3(v), op_order(rx, ry, rz))

BatchXYZ(v, p, rx, ry, rz, poly_output, order_output) ==
    LET s_v == SortXYZ(v, rx, ry, rz)
    IN BatchOut(First3(s_v), s_v, p, poly_output, order_output)

\* ----------------------------------------------------------------- mode AXYZ
\* matrix @ Vector
MatVec(matrix, v) ==
    [r \in 1..3 |-> matrix[r][1] * v[1] + matrix[r][2] * v[2] + matrix[r][3] * v[3]]

KeyAXYZ(matrix, item, rx, ry, rz) ==
    LET w == MatVec(matrix, item)
    IN <<IF rx THEN 0 - w[1] ELSE w[1], IF ry THEN 0 - w[2] ELSE w[2],
         IF rz THEN 0 - w[3] ELSE w[3]>>

BatchAXYZ(v, p, matrix, rx, ry, rz, poly_output, order_output) ==
    LET items == Enumerate3(v)
        s_v == sorted(items, [m \in 1..Len(v) |-> KeyAXYZ(matrix, items[m], rx, ry, rz)], FALSE)
    IN BatchOut(First3(s_v), s_v, p, poly_output, order_output)

\* ----------------------------------------------------------------- mode ADIR
\* Vector(item[:3]).dot(direction)
KeyADIR(direction, item) ==
    <<item[1] * direction[1] + item[2] * direction[2] + item[3] * direction[3]>>

\* what is left of s_v once the vertex list was built from it: reversed() gives
\* an iterator, which the first comprehension over it exhausts
AfterFirstRead(s_v, rev) == IF rev THEN <<>> ELSE s_v

BatchADIR(v, p, direction, rev, poly_output, order_output) ==
    LET items == Enumerate3(v)
        s_v == sorted(items, [m \in 1..Len(v) |-> KeyADIR(direction, items[m])], FALSE)
        first == IF rev THEN reversed(s_v) ELSE s_v
    IN BatchOut(First3(first), AfterFirstRead(s_v, rev), p, poly_output, order_output)

\* ------------------------------------------------- linear_approximation(v)
\* The reference frame of a batch: its centroid and its principal components,
\* the directions in which the variance of the points is greatest, second and
\* least. The plane matrix has the three as rows (the two in-plane ones, then
\* the normal), the line has the first as its direction.
RECURSIVE SumOf(_, _, _, _)
\* the sum over the first k points of coordinate i times coordinate j; of
\* coordinate i alone when j = 0
SumOf(v, i, j, k) ==
    IF k = 0 THEN 0
    ELSE (IF j = 0 THEN v[k][i] ELSE v[k][i] * v[k][j]) + SumOf(v, i, j, k - 1)

\* N times the centroid
PointSum(v) == [i \in 1..3 |-> SumOf(v, i, 0, Len(v))]

\* N * N times the covariance matrix of the points
Scatter(v) ==
    [i \in 1..3 |-> [j \in 1..3 |->
        Len(v) * SumOf(v, i, j, Len(v)) - SumOf(v, i, 0, Len(v)) * SumOf(v, j, 0, Len(v))]]

Dot(a, b) == a[1] * b[1] + a[2] * b[2] + a[3] * b[3]

Cross(a, b) ==
    <<a[2] * b[3] - a[3] * b[2], a[3] * b[1] - a[1] * b[3], a[1] * b[2] - a[2] * b[1]>>

\* a is the direction of a principal component: S a is a multiple of a
IsComponent(S, a) == Cross(MatVec(S, a), a) = <<0, 0, 0>>

\* the variance along a is that along b or more
VarianceAtLeast(S, a, b) == Dot(a, MatVec(S, a)) * Dot(b, b) >= Dot(b, MatVec(S, b)) * Dot(a, a)

\* the directions a component can be given in: through a corner, the middle
\* of an edge or the middle of a face of the cube about the origin, the first
\* coordinate that is not 0 positive (the sign of a component is open)
Axes ==
    {a \in {0 - 1, 0, 1} \X {0 - 1, 0, 1} \X {0 - 1, 0, 1} :
        \/ a[1] = 1
        \/ a[1] = 0 /\ a[2] = 1
        \/ a[1] = 0 /\ a[2] = 0 /\ a[3] = 1}

\* the frames of the axes A: three of them at right angles, in the order of
\* falling variance
FramesWith(S, A) ==
    {f \in A \X A \X A :
        /\ Dot(f[1], f[2]) = 0 /\ Dot(f[1], f[3]) = 0 /\ Dot(f[2], f[3]) = 0
        /\ VarianceAtLeast(S, f[1], f[2])
        /\ VarianceAtLeast(S, f[2], f[3])}

\* the frames of the batch v (with equal variances more than one frame fits:
\* any basis may be produced)
FramesOf(v) ==
    UNION {FramesWith(S, {a \in Axes : IsComponent(S, a)}) : S \in {Scatter(v)}}

\* what the call can return for the batch v: the matrix of
\* most_similar_plane().get_matrix().inverted(), the direction of
\* most_similar_line(), which points either way along the first component,
\* and the center (as N times the centroid)
linear_approximation(v) ==
    UNION {{[matrix |-> f, direction |-> d, center |-> PointSum(v)] :
                d \in {f[1], <<0 - f[1][1], 0 - f[1][2], 0 - f[1][3]>>}} : f \in FramesOf(v)}

\* ----------------------------------------------------------------- mode ACYL
\* The rows of matrix are the axes of the fitted frame, not scaled to length 1,
\* and center is N times the centroid of the N points. So
\* w = matrix @ (N * item - center) is the point about the centroid in the
\* frame, coordinate r enlarged by N times the length of row r: the value that
\* line 351 computes in floating point.
Local(matrix, center, n, item) ==
    MatVec(matrix, <<n * item[1] - center[1], n * item[2] - center[2], n * item[3] - center[3]>>)

\* the row, scaled to length 1, has the entries 0 and 1: the coordinate it
\* gives is the difference of one coordinate of the point and of the center
AlongAxis(row) == Dot(row, row) = 1

\* line 351 rounds coordinate r of v: the row has entries such as
\* 1 / sqrt(2), or the coordinate of the centroid it takes is no whole number
Rounds(matrix, center, n, r) ==
    \/ ~AlongAxis(matrix[r])
    \/ \E i \in 1..3 : matrix[r][i] # 0 /\ center[i] % n # 0

\* coordinate r of v is 0 whatever the rounding: every product of an entry of
\* the row and a coordinate of item - center is 0 (a coordinate of the
\* centroid that equals the point's is a whole number, and the difference 0)
SurelyZero(matrix, center, n, item, r) ==
    \A i \in 1..3 : matrix[r][i] = 0 \/ n * item[i] = center[i]

\* coordinate r of v is the same for the two points whatever the rounding:
\* they differ in no coordinate that the row takes
SurelyEqual(matrix, a, b, r) ==
    \A i \in 1..3 : matrix[r][i] = 0 \/ a[i] = b[i]

\* a and b lie on one ray from the axis of the cylinder, or one of them on
\* the axis
OnRay(a, b) == a[1] * b[2] - b[1] * a[2] = 0 /\ a[1] * b[1] + a[2] * b[2] >= 0

\* where atan2(y, x) lies in -pi <= phi <= pi for the direction d of (x, y):
\* next to -pi, below the x axis, on its positive half (atan2(0, 0) = 0),
\* above it, next to +pi
PhiPart(d, side) ==
    IF d[2] < 0 THEN 1 ELSE IF d[2] > 0 THEN 3 ELSE IF d[1] >= 0 THEN 2
    ELSE IF side < 0 THEN 0 ELSE 4

\* The v of line 351 for the exact value w, as far as the order of the keys
\* depends on it: d is the direction of (x, y), part where its phi lies, jit
\* whether phi comes out a little less (-1), as it is (0) or a little greater
\* (1) than the exact angle of d, and z orders the points as the rounded z
\* does (zjit: rounded down, exact, rounded up)
Rounded(w, u, side, jit, zjit) ==
    LET d == IF w[1] = 0 /\ w[2] = 0 THEN u ELSE <<w[1], w[2]>>
    IN [d |-> d, part |-> PhiPart(d, side), jit |-> jit, z |-> 3 * w[3] + zjit]

\* How the rounding of line 351 can fall for point m of the batch v, whose
\* exact values are ws. The outcome depends on the precision of the arithmetic
\* and on the last bits of the matrix and the center:
\*   u    - where x and y are both 0: the signs of what is left of them, or
\*          the direction of another point of the batch;
\*   side - where y is 0 and x is negative: the sign of what is left of y,
\*          which puts phi next to -pi (-1) or next to +pi (1);
\*   jit  - where another point has the same phi: phi comes out a little
\*          less, as it is or a little greater;
\*   zjit - where another point has the same phi, whatever the rounding,
\*          and the same z: z comes out a little less, as it is or a little
\*          greater.
\* Nothing is left of a coordinate that is 0 whatever the rounding, and phi
\* is a multiple of pi / 2 where x or y is.
PointRoundings(matrix, center, v, ws, m) ==
    LET w == ws[m]
        n == Len(v)
        onAxis == w[1] = 0 /\ w[2] = 0
        onRay == \E j \in 1..n : ws[j] # w /\ OnRay(w, ws[j])
        zero(r) == SurelyZero(matrix, center, n, v[m], r)
        left(r) == IF onAxis /\ ~zero(r) THEN {0 - 1, 0, 1} ELSE {0}
        us == (left(1) \X left(2))
              \cup (IF onAxis /\ ~zero(1) /\ ~zero(2)
                    THEN {<<ws[j][1], ws[j][2]>> : j \in 1..n} ELSE {})
        sides == IF w[2] = 0 /\ w[1] < 0 /\ ~zero(2) THEN {0 - 1, 1} ELSE {1}
        quarter == zero(1) \/ zero(2)
        jits == IF /\ onRay
                   /\ ~quarter
                   /\ Rounds(matrix, center, n, 1) \/ Rounds(matrix, center, n, 2)
                THEN {0 - 1, 0, 1} ELSE {0}
        zjits == IF /\ quarter
                    /\ \E j \in 1..n : /\ ws[j] # w /\ OnRay(w, ws[j]) /\ ws[j][3] = w[3]
                                       /\ ~SurelyEqual(matrix, v[j], v[m], 3)
                 THEN {0 - 1, 0, 1} ELSE {0}
    IN IF w[2] # 0 /\ ~onRay
       THEN {Rounded(w, <<0, 0>>, 1, 0, 0)}
       ELSE {Rounded(w, u, sd, j, zj) : u \in us, sd \in sides, j \in jits, zj \in zjits}

\* the first point of the batch that lies where point m does: the arithmetic
\* is the same for both
FirstAt(ws, m) == CHOOSE k \in 1..m : ws[k] = ws[m] /\ \A j \in 1..(k - 1) : ws[j] # ws[m]

RECURSIVE RoundingsUpTo(_, _, _, _, _)
\* how the rounding can fall for the first k points of the batch
RoundingsUpTo(matrix, center, v, ws, k) ==
    IF k = 0 THEN {<<>>}
    ELSE UNION {{Append(s, t) : t \in (IF FirstAt(ws, k) = k
                                       THEN PointRoundings(matrix, center, v, ws, k)
                                       ELSE {s[FirstAt(ws, k)]})} :
                    s \in RoundingsUpTo(matrix, center, v, ws, k - 1)}

\* atan2 of a is less than atan2 of b: within a half plane the angle grows
\* counterclockwise (enlarging the two coordinates keeps the order of
\* angles); equal angles are told apart by the rounding
PhiLess(a, b) ==
    \/ a.part < b.part
    \/ /\ a.part = b.part
       /\ IF a.part \in {1, 3} /\ ~OnRay(a.d, b.d)
          THEN a.d[1] * b.d[2] - b.d[1] * a.d[2] > 0
          ELSE a.jit < b.jit

\* (rho, phi, z) of point m of the batch, each as a number that orders the
\* points of the batch as the value does: rho squared and enlarged alike for
\* all points, phi as the number of points of a smaller phi; ws are the exact
\* and vs the rounded v of the points
to_cylindrical(ws, vs, m, matrix) ==
    <<ws[m][1] * ws[m][1] * Dot(matrix[2], matrix[2]) + ws[m][2] * ws[m][2] * Dot(matrix[1], matrix[1]),
      Cardinality({j \in 1..Len(vs) : PhiLess(vs[j], vs[m])}),
      vs[m].z>>

\* the key (phi, z, rho) of point m of the batch
KeyACYL(matrix, ws, vs, m) ==
    LET c == to_cylindrical(ws, vs, m, matrix)
    IN <<c[2], c[3], c[1]>>

\* the keys of the points of the batch that the arithmetic can give, one list
\* for every way the rounding can fall
KeysOf(matrix, center, v, ws) ==
    {[m \in 1..Len(ws) |-> KeyACYL(matrix, ws, vs, m)] :
        vs \in RoundingsUpTo(matrix, center, v, ws, Len(ws))}

\* the lists of keys line 350-353 can give for the batch v
KeysACYL(matrix, center, v) ==
    KeysOf(matrix, center, v, [j \in 1..Len(v) |-> Local(matrix, center, Len(v), v[j])])

\* keys: key(item) of every point of the batch
BatchACYL(v, p, keys, rev, poly_output, order_output) ==
    LET items == Enumerate3(v)
        s_v == sorted(items, keys, FALSE)
        first == IF rev THEN reversed(s_v) ELSE s_v
    IN BatchOut(First3(first), AfterFirstRead(s_v, rev), p, poly_output, order_output)

\* ----------------------------------------------------------------- mode DIST
\* sorted(((v_c, i) for i, v_c in enumerate(v)), key=lambda v: distK(v[0], v_base))
BatchDIST(v, p, v_base, poly_output, order_output) ==
    LET items == [m \in 1..Len(v) |-> <<v[m], m - 1>>]
        s_v == sorted(items, [m \in 1..Len(v) |-> <<distK(v[m], v_base)>>], FALSE)
    IN BatchOut([m \in 1..Len(s_v) |-> s_v[m][1]], s_v, p, poly_output, order_output)

\* ----------------------------------------------------------------- mode AXIS
\* Matrix.Identity(4), as rows
IdentityMat == <<(<<1, 0, 0, 0>>), (<<0, 1, 0, 0>>), (<<0, 0, 1, 0>>), (<<0, 0, 0, 1>>)>>

\* the quarter turn about the y axis that takes the z axis to the x axis
Turn == <<(<<0, 0, 1, 0>>), (<<0, 1, 0, 0>>), (<<0 - 1, 0, 0, 0>>), (<<0, 0, 0, 1>>)>>

\* the matrices given to the 'Mat' socket
Mats == {IdentityMat, Turn}

\* m @ Vector(p) for a 4x4 matrix and a point
MatPoint(m, p) ==
    [r \in 1..3 |-> m[r][1] * p[1] + m[r][2] * p[2] + m[r][3] * p[3] + m[r][4]]

\* intersect_point_line(v_c, base_point, axis)[1]: how far along the line from
\* base_point to axis the point nearest to v_c lies (the matrices of Mats are
\* rotations: the line has length 1 and the division is exact)
AxisFraction(v_c, m) ==
    LET base_point == MatPoint(m, <<0, 0, 0>>)
        axis == MatPoint(m, <<0, 0, 1>>)
        d == [r \in 1..3 |-> axis[r] - base_point[r]]
        w == [r \in 1..3 |-> v_c[r] - base_point[r]]
    IN (w[1] * d[1] + w[2] * d[2] + w[3] * d[3]) \div (d[1] * d[1] + d[2] * d[2] + d[3] * d[3])

\* the angle for the identity: between (1, 0, z) and (x, y, z), in whole
\* degrees, negative unless it turns about the z axis; for the points with
\* coordinates 0 or 1 other than the origin
AngleAboutZ(v_c) ==
    CASE v_c = <<1, 0, 0>> -> 0
      [] v_c = <<0, 1, 0>> -> 90
      [] v_c = <<1, 1, 0>> -> 45
      [] v_c = <<0, 0, 1>> -> 0 - 45
      [] v_c = <<1, 0, 1>> -> 0
      [] v_c = <<0, 1, 1>> -> 60
      [] v_c = <<1, 1, 1>> -> 35

\* the angle for Turn: between (x, 0, -1) and (x, y, z), in whole degrees,
\* negative unless it turns about the x axis; (0, 0, 1) is opposite to
\* (0, 0, -1), half a turn about an axis rotation_difference picks across the x axis
AngleAboutX(v_c) ==
    CASE v_c = <<1, 0, 0>> -> 0 - 45
      [] v_c = <<0, 1, 0>> -> 90
      [] v_c = <<1, 1, 0>> -> 60
      [] v_c = <<0, 0, 1>> -> 0 - 180
      [] v_c = <<1, 0, 1>> -> 0 - 90
      [] v_c = <<0, 1, 1>> -> 135
      [] v_c = <<1, 1, 1>> -> 90

\* f(axis, (axis_norm + v_l[0]).rotation_difference(v_c)) with axis = m @ (0, 0, 1)
\* and axis_norm = m @ (1, 0, 0)
AxisAngle(v_c, m) == IF m = Turn THEN AngleAboutX(v_c) ELSE AngleAboutZ(v_c)

BatchAXIS(v, p, m, poly_output, order_output) ==
    LET items == [k \in 1..Len(v) |-> <<AxisFraction(v[k], m), AxisAngle(v[k], m), k - 1>>]
        s_v == sorted(items, [k \in 1..Len(v) |-> <<items[k][1], items[k][2]>>], FALSE)
    IN BatchOut([k \in 1..Len(s_v) |-> v[s_v[k][3] + 1]], s_v, p, poly_output, order_output)

\* ----------------------------------------------------------------- mode USER
Min(a, b) == IF a < b THEN a ELSE b

\* BatchUSER that pairs every point with a key, the last key again once the
\* keys have run out
BatchUSER_Padded(v, p, keys, poly_output, order_output) ==
    LET items == [m \in 1..(IF Len(keys) = 0 THEN 0 ELSE Len(v)) |->
                     <<keys[Min(m, Len(keys))], v[m], m - 1>>]
        s_v == sorted(items, [m \in 1..Len(items) |-> <<items[m][1]>>], FALSE)
    IN BatchOut([m \in 1..Len(s_v) |-> s_v[m][2]], s_v, p, poly_output, order_output)

\* sorted([(data[0], data[1], i) for i, data in enumerate(zip(i, v))], key=itemgetter(0))
BatchUSER(v, p, keys, poly_output, order_output) ==
    LET items == [m \in 1..Min(Len(keys), Len(v)) |-> <<keys[m], v[m], m - 1>>]
        s_v == sorted(items, [m \in 1..Len(items) |-> <<items[m][1]>>], FALSE)
    IN BatchOut([m \in 1..Len(s_v) |-> s_v[m][2]], s_v, p, poly_output, order_output)

\* --------------------------------------------------------------- mode CONNEX
\* zip(face, list(face[1:]) + list([face[0]])): the sides of a face, closed
EdgesOfFace(face) == [k \in 1..Len(face) |-> <<face[k], face[(k % Len(face)) + 1]>>]

\* the sides of the faces k, k+1, ... one after the other
RECURSIVE AllSides(_, _)
AllSides(faces, k) ==
    IF k > Len(faces) THEN <<>> ELSE EdgesOfFace(faces[k]) \o AllSides(faces, k + 1)

\* the edges k, k+1, ... of es that join no pair of points of seen or of an
\* earlier edge
RECURSIVE UnseenEdges(_, _, _)
UnseenEdges(es, k, seen) ==
    IF k > Len(es) THEN <<>>
    ELSE IF {es[k][1], es[k][2]} \in seen THEN UnseenEdges(es, k + 1, seen)
    ELSE <<es[k]>> \o UnseenEdges(es, k + 1, seen \cup {{es[k][1], es[k][2]}})

\* polygons_to_edges([faces], True)[0]: the sides of the faces, each pair of
\* points once; every face has a first reference
polygons_to_edges(faces) == UnseenEdges(AllSides(faces, 1), 1, {})

\* face[0] raises IndexError for a face without references
HasEmptyFace(faces) == \E k \in 1..Len(faces) : Len(faces[k]) = 0

\* [index_new.index(i) for i in pol] for pol in pols[0], or ValueError
FacesRenumbered(pols, index_new) ==
    IF \E k \in 1..Len(pols) : \E r \in 1..Len(pols[k]) : ~Contains(index_new, pols[k][r])
    THEN [err |-> "ValueError", faces |-> <<>>]
    ELSE [err |-> "",
          faces |-> [k \in 1..Len(pols) |->
                       [r \in 1..Len(pols[k]) |-> IndexOf(index_new, pols[k][r])]]]

\* what a pass writes from r, the result of the walk or the exception raised
\* before or in it: lines 446-450
WalkedBatch(p, faces, r) ==
    LET failed(err) == [err |-> err, verts |-> <<>>, poly |-> <<>>, order |-> <<>>]
        fr == FacesRenumbered(p, r.index)
    IN IF r.err # "" THEN failed(r.err)
       ELSE IF faces /\ fr.err # "" THEN failed(fr.err)
       ELSE [err |-> "", verts |-> <<r.verts_out>>,
             poly |-> <<IF faces THEN <<fr.faces>> ELSE r.edges_out>>,
             order |-> <<r.index>>]

\* one pass of the loop of the CONNEX branch: a batch whose first entry has
\* more than two references is a batch of faces, walked by its sides and
\* written as [new_pols]
BatchCONNEX(v, p, limit_mode) ==
    IF Len(p) = 0 THEN WalkedBatch(p, FALSE, [err |-> "IndexError"])
    ELSE IF Len(p[1]) > 2 /\ HasEmptyFace(p) THEN WalkedBatch(p, TRUE, [err |-> "IndexError"])
    ELSE WalkedBatch(p, Len(p[1]) > 2,
                     sort_vertices_by_connexions(
                         v, IF Len(p[1]) > 2 THEN polygons_to_edges(p) ELSE p, limit_mode))

\* ----------------------------------------------------------------- the state
VARIABLES
    mode,          \* SvVertSortNode.mode
    limit_mode,    \* SvVertSortNode.limit_mode
    reverse_x,     \* SvVertSortNode.reverse_x
    reverse_y,     \* SvVertSortNode.reverse_y
    reverse_z,     \* SvVertSortNode.reverse_z
    reverse,       \* SvVertSortNode.reverse
    changes_left,  \* how many more times the mode is set in this run, MaxModeChanges at most
    inputs,        \* the input sockets: what sv_get() gives, and is_linked
    links,         \* is_linked of the three output sockets
    fit,           \* what linear_approximation(v) gives for the batch
    outputs,       \* the output sockets: whether sv_set() was called, and with what
    ppc,           \* where process is: "ready", "done", "raised"
    verts_in,      \* argument of a call of sort_vertices_by_connexions: the points
    edges_in,      \* argument: the edges, pairs of point indices
    walk,          \* the locals of the call (popped: the edges removed so far)
    cpc            \* where the call is: "idle", "call", "loop", "return", "raised"

nodeVars == <<mode, limit_mode, reverse_x, reverse_y, reverse_z, reverse, changes_left>>
procVars == <<inputs, links, fit, outputs, ppc>>
callVars == <<verts_in, edges_in, walk, cpc>>
vars == <<mode, limit_mode, reverse_x, reverse_y, reverse_z, reverse, changes_left,
          inputs, links, fit, outputs, ppc, verts_in, edges_in, walk, cpc>>

\* ------------------------------------------------------------ the input data
RECURSIVE SeqsUpTo(_, _)
\* the lists of at most n elements of S
SeqsUpTo(S, n) ==
    IF n = 0 THEN {<<>>}
    ELSE LET shorter == SeqsUpTo(S, n - 1)
         IN shorter \cup {Append(s, x) : s \in {t \in shorter : Len(t) = n - 1}, x \in S}

\* the coordinates of the points given to process
Coords == {0, 1}
PointPool == Coords \X Coords \X Coords
Origin == <<0, 0, 0>>

\* the modes that call linear_approximation
FitModes == {"AXYZ", "ADIR", "ACYL"}

\* three points on the x axis, at distances 3, 1 and 2 from the origin
OnAxis == <<(<<3, 0, 0>>), (<<1, 0, 0>>), (<<2, 0, 0>>)>>

\* three points in the plane z = 0 whose best-fit line runs along the x axis:
\* the first two lie at one height along it, the third three units further
Tied == <<(<<0, 2, 0>>), (<<0, 0, 0>>), (<<3, 1, 0>>)>>

\* the batches of points of a sorting run; the keys of mode USER are given
\* apart from the points, the rotation of mode AXIS has no origin, and the
\* points of mode AXYZ lie in one plane. Of these a mode that fits a frame
\* sorts the batches whose components lie along Axes.
VertBatches(m) ==
    {v \in SeqsUpTo(CASE m = "AXIS" -> PointPool \ {Origin}
                       [] m = "AXYZ" -> Coords \X Coords \X {0}
                       [] m = "USER" -> {Origin, <<1, 0, 0>>}
                       [] OTHER -> PointPool, MaxVerts) : Len(v) >= 1}
    \cup (IF m = "DIST" THEN {OnAxis} ELSE {})
    \cup (IF m \in FitModes THEN {Tied} ELSE {})

\* a batch of n distinct points, none the origin
FixedBatch(n) == [k \in 1..n |-> <<1, k % 2, (k \div 2) % 2>>]

\* the closed polyline over n points, as edges
Ring(n) == [k \in 1..n |-> <<k - 1, k % n>>]

\* two edges and one face over all n points
Mixed(n) == <<(<<n - 1, 0>>), [k \in 1..n |-> n - k], (<<0, 0>>)>>

\* two faces over all n points, one the other turned round
Faces(n) == <<[k \in 1..n |-> n - k], [k \in 1..n |-> k - 1]>>

\* the PolyEdge batches of a sorting run over n points
PolyBatches(m, n) == {Ring(n), Mixed(n)} \cup (IF m = "CONNEX" THEN {Faces(n)} ELSE {})

\* the PolyEdge batches of a wiring run over n points: valid ones, and single
\* edges with any endpoints from -1 to n
WiringPoly(m, n) ==
    PolyBatches(m, n) \cup {<<>>} \cup {<<(<<a, b>>)>> : a \in (0 - 1)..n, b \in (0 - 1)..n}

\* the points given to 'Base Point'
BasePoints == {Origin, <<1, 1, 0>>}

\* no call of linear_approximation: the modes that make none read no frame
Identity3 == <<(<<1, 0, 0>>), (<<0, 1, 0>>), (<<0, 0, 1>>)>>
NoFit == [matrix |-> Identity3, direction |-> <<1, 0, 0>>, center |-> Origin]

\* the frame of a run of mode m on the batch v; the direction of the line is
\* read by mode ADIR alone
Fits(m, v) ==
    IF m \in FitModes
    THEN {x \in linear_approximation(v) : m = "ADIR" \/ x.direction = x.matrix[1]}
    ELSE {NoFit}

Modes == {"XYZ", "DIST", "AXIS", "CONNEX", "AXYZ", "ADIR", "ACYL", "USER"}

NotSet == [set |-> FALSE, data |-> <<>>]
NoOutputs == [Vertices |-> NotSet, PolyEdge |-> NotSet, ItemOrder |-> NotSet]

\* the properties a mode does not read keep their defaults
InitNode ==
    /\ mode \in Modes
    /\ limit_mode \in (IF mode = "CONNEX" THEN BOOLEAN ELSE {FALSE})
    /\ reverse_x \in (IF mode \in {"XYZ", "AXYZ"} THEN BOOLEAN ELSE {FALSE})
    /\ reverse_y \in (IF mode \in {"XYZ", "AXYZ"} THEN BOOLEAN ELSE {FALSE})
    /\ reverse_z \in (IF mode \in {"XYZ", "AXYZ"} THEN BOOLEAN ELSE {FALSE})
    /\ reverse \in (IF mode \in {"ADIR", "ACYL"} THEN BOOLEAN ELSE {FALSE})

InitIdleCall ==
    /\ verts_in = <<>>
    /\ edges_in = <<>>
    /\ walk = NoWalk
    /\ cpc = "idle"

\* a sorting run: any batch of points, a valid PolyEdge batch, everything linked
InitSorting ==
    /\ InitNode
    /\ \E v \in VertBatches(mode) :
        /\ fit \in Fits(mode, v)
        /\ \E p \in PolyBatches(mode, Len(v)) :
            \E bp \in (IF mode = "DIST" THEN BasePoints ELSE {Origin}) :
                \E keys \in (IF mode = "USER"
                             THEN {k \in SeqsUpTo(Coords, MaxVerts + 1) : Len(k) <= Len(v) + 1}
                             ELSE {<<>>}) :
                    inputs = [Vertices |-> <<v>>, PolyEdge |-> <<p>>, PolyEdge_linked |-> TRUE,
                              BasePoint |-> <<(<<bp>>)>>, IndexData |-> <<keys>>,
                              IndexData_linked |-> (mode = "USER"),
                              Mat |-> <<>>, Mat_linked |-> FALSE]
    /\ links = [Vertices |-> TRUE, PolyEdge |-> TRUE, ItemOrder |-> TRUE]
    /\ changes_left = 0

\* the batches of n points of a wiring run
WiringVerts(m, n) ==
    {FixedBatch(n)} \cup (IF m \in FitModes /\ n = Len(Tied) THEN {Tied} ELSE {})

\* a wiring run: a fixed batch of points, any PolyEdge batch, any linking
InitWiring ==
    /\ InitNode
    /\ \E n \in 1..MaxVerts : \E v \in WiringVerts(mode, n) :
        /\ fit \in Fits(mode, v)
        /\ \E pl \in BOOLEAN :
            \E p \in (IF pl THEN WiringPoly(mode, n) ELSE {<<>>}) :
                \E il \in (IF mode = "USER" THEN BOOLEAN ELSE {FALSE}) :
                    inputs = [Vertices |-> <<v>>, PolyEdge |-> <<p>>,
                              PolyEdge_linked |-> pl, BasePoint |-> <<(<<Origin>>)>>,
                              IndexData |-> IF il THEN <<[k \in 1..n |-> k % 2]>> ELSE <<>>,
                              IndexData_linked |-> il,
                              Mat |-> <<>>, Mat_linked |-> FALSE]
    /\ links \in [{"Vertices", "PolyEdge", "ItemOrder"} -> BOOLEAN]
    /\ changes_left = 0

\* K keys, falling from K-1 to 0: sorting by them turns the points round
KeyRun(K) == [m \in 1..K |-> K - m]

\* a keyed run: mode USER with any numbers of batches of points, of edges and
\* of keys, and any number of keys in a batch, more or fewer than its points;
\* the edges of a batch are one edge, on point 0 alone or from 0 to the last
\* point
InitKeyed ==
    /\ mode = "USER"
    /\ limit_mode = FALSE
    /\ reverse_x = FALSE /\ reverse_y = FALSE /\ reverse_z = FALSE /\ reverse = FALSE
    /\ fit = NoFit
    /\ \E n \in 1..MaxVerts :
        \E nv \in 1..MaxBatches :
            \E ks \in SeqsUpTo(0..(n + 1), MaxBatches) :
                \E pl \in BOOLEAN :
                    \E p \in (IF pl THEN {[k \in 1..np |-> <<(<<0, e>>)>>] :
                                              np \in 1..MaxBatches, e \in {0, n - 1}}
                              ELSE {<<>>}) :
                        inputs = [Vertices |-> [k \in 1..nv |-> FixedBatch(n)],
                                  PolyEdge |-> p, PolyEdge_linked |-> pl,
                                  BasePoint |-> <<(<<Origin>>)>>,
                                  IndexData |-> [k \in 1..Len(ks) |-> KeyRun(ks[k])],
                                  IndexData_linked |-> TRUE,
                                  Mat |-> <<>>, Mat_linked |-> FALSE]
    /\ \E lp \in BOOLEAN : links = [Vertices |-> TRUE, PolyEdge |-> lp, ItemOrder |-> TRUE]
    /\ changes_left = 0

\* the points of a turned run: under Turn one of them lies at the foot of the
\* axis and three lie one unit along it
TurnedPool == {<<1, 0, 0>>, <<0, 0, 1>>, <<1, 1, 0>>, <<1, 0, 1>>}

\* a turned run: mode AXIS with 'Mat' linked, any number of batches of points
\* and one matrix or more, more or fewer than the batches
InitTurned ==
    /\ mode = "AXIS"
    /\ limit_mode = FALSE
    /\ reverse_x = FALSE /\ reverse_y = FALSE /\ reverse_z = FALSE /\ reverse = FALSE
    /\ fit = NoFit
    /\ \E v \in {b \in SeqsUpTo(TurnedPool, MaxVerts) : Len(b) >= 1} :
        \E nv \in 1..MaxBatches :
            \E mats \in {ms \in SeqsUpTo(Mats, MaxBatches) : Len(ms) >= 1} :
                inputs = [Vertices |-> [k \in 1..nv |-> v],
                          PolyEdge |-> [k \in 1..nv |-> Ring(Len(v))], PolyEdge_linked |-> TRUE,
                          BasePoint |-> <<(<<Origin>>)>>,
                          IndexData |-> <<>>, IndexData_linked |-> FALSE,
                          Mat |-> mats, Mat_linked |-> TRUE]
    /\ links = [Vertices |-> TRUE, PolyEdge |-> TRUE, ItemOrder |-> TRUE]
    /\ changes_left = 0

\* a changing run: a fixed batch of points and its ring, the third socket of
\* the mode linked or not, and the mode set again later (the frame is the one
\* a mode that fits will compute for the batch)
InitChanging ==
    /\ mode \in Modes
    /\ limit_mode = FALSE
    /\ reverse_x = FALSE /\ reverse_y = FALSE /\ reverse_z = FALSE /\ reverse = FALSE
    /\ \E n \in 1..MaxVerts :
        /\ fit \in linear_approximation(FixedBatch(n))
        /\ \E pl \in BOOLEAN :
            \E third \in BOOLEAN :
                inputs = [Vertices |-> <<FixedBatch(n)>>,
                          PolyEdge |-> IF pl THEN <<Ring(n)>> ELSE <<>>, PolyEdge_linked |-> pl,
                          BasePoint |-> IF third /\ mode = "DIST"
                                        THEN <<(<<(<<1, 1, 0>>)>>)>> ELSE <<(<<Origin>>)>>,
                          IndexData |-> IF third /\ mode = "USER" THEN <<KeyRun(n)>> ELSE <<>>,
                          IndexData_linked |-> (third /\ mode = "USER"),
                          Mat |-> IF third /\ mode = "AXIS" THEN <<Turn>> ELSE <<>>,
                          Mat_linked |-> (third /\ mode = "AXIS")]
    /\ \E lk \in BOOLEAN : links = [Vertices |-> TRUE, PolyEdge |-> lk, ItemOrder |-> lk]
    /\ changes_left \in 1..MaxModeChanges

Init ==
    /\ InitSorting \/ InitWiring \/ InitKeyed \/ InitTurned \/ InitChanging
    /\ outputs = NoOutputs
    /\ ppc = "ready"
    /\ InitIdleCall

\* -------------------------------------------------------------------- process
poly_in == inputs.PolyEdge_linked
\* poly_output without poly_in: self.outputs['PolyEdge'].is_linked alone
poly_output_Linked == links.PolyEdge

\* poly_output = poly_in and self.outputs['PolyEdge'].is_linked
poly_output == poly_in /\ links.PolyEdge
order_output == links.ItemOrder
vert_output == links.Vertices

\* poly_edge: the PolyEdge data, or repeat_last([[]]) when the socket is not linked
PolyBatch(k) == IF poly_in THEN inputs.PolyEdge[k] ELSE <<>>

\* the number of passes of "for v, p in zip(verts, poly_edge)"
NumBatches ==
    IF poly_in THEN Min(Len(inputs.Vertices), Len(inputs.PolyEdge)) ELSE Len(inputs.Vertices)

\* bp_iter = repeat_last(base_points[0]), for the input sockets inp
BaseIn(inp, k) == LET bps == inp.BasePoint[1] IN bps[Min(k, Len(bps))]

\* the base point of batch k
BaseOf(k) == BaseIn(inputs, k)

\* mat_iter = repeat_last(mat): the matrices of 'Mat', the last one again once
\* they have run out, or the identity when the socket is not linked
MatOf(inp, k) == IF inp.Mat_linked THEN inp.Mat[Min(k, Len(inp.Mat))] ELSE IdentityMat

\* the number of passes of "for v, p, m in zip(Vector_generate(verts), poly_edge, mat_iter)":
\* repeat_last of an empty list gives nothing
AxisBatches(inp) == IF inp.Mat_linked /\ Len(inp.Mat) = 0 THEN 0 ELSE NumBatches

\* verts_out, poly_edge_out and item_order after the passes rs[k], rs[k+1], ...;
\* an exception ends the loop
RECURSIVE Gather(_, _)
Gather(rs, k) ==
    IF k > Len(rs) THEN [err |-> "", verts |-> <<>>, poly |-> <<>>, order |-> <<>>]
    ELSE IF rs[k].err # "" THEN rs[k]
    ELSE LET rest == Gather(rs, k + 1)
         IN IF rest.err # "" THEN rest
            ELSE [err |-> "", verts |-> rs[k].verts \o rest.verts,
                  poly |-> rs[k].poly \o rest.poly, order |-> rs[k].order \o rest.order]

\* the output sockets after the sv_set calls of lines 452-457
Written(res) ==
    [Vertices |-> IF vert_output THEN [set |-> TRUE, data |-> res.verts] ELSE outputs.Vertices,
     PolyEdge |-> IF poly_output THEN [set |-> TRUE, data |-> res.poly] ELSE outputs.PolyEdge,
     ItemOrder |-> IF order_output THEN [set |-> TRUE, data |-> res.order] ELSE outputs.ItemOrder]

\* the sv_set calls that end process, or the exception leaving it
Finish(res) ==
    IF res.err # ""
    THEN /\ ppc' = "raised"
         /\ UNCHANGED outputs
    ELSE /\ ppc' = "done"
         /\ outputs' = Written(res)

\* any((vert_output, order_output, poly_output))
Requested == TRUE \in {vert_output, order_output, poly_output}

\* "if not any((vert_output, order_output, poly_output)): return"
ProcessNothing ==
    /\ ppc = "ready"
    /\ ~Requested
    /\ ppc' = "done"
    /\ UNCHANGED <<nodeVars, inputs, links, fit, outputs, callVars>>

\* verts_out, poly_edge_out and item_order of mode XYZ, or the exception
RunXYZ ==
    Gather([k \in 1..NumBatches |->
            BatchXYZ(inputs.Vertices[k], PolyBatch(k), reverse_x, reverse_y, reverse_z,
                     poly_output, order_output)], 1)

ProcessXYZ ==
    /\ ppc = "ready" /\ Requested /\ mode = "XYZ"
    /\ Finish(RunXYZ)
    /\ UNCHANGED <<nodeVars, inputs, links, fit, callVars>>

\* verts_out, poly_edge_out and item_order of mode AXYZ, or the exception
RunAXYZ ==
    Gather([k \in 1..NumBatches |->
            BatchAXYZ(inputs.Vertices[k], PolyBatch(k), fit.matrix, reverse_x, reverse_y,
                      reverse_z, poly_output, order_output)], 1)

ProcessAXYZ ==
    /\ ppc = "ready" /\ Requested /\ mode = "AXYZ"
    /\ Finish(RunAXYZ)
    /\ UNCHANGED <<nodeVars, inputs, links, fit, callVars>>

\* verts_out, poly_edge_out and item_order of mode ADIR, or the exception
RunADIR ==
    Gather([k \in 1..NumBatches |->
            BatchADIR(inputs.Vertices[k], PolyBatch(k), fit.direction, reverse,
                      poly_output, order_output)], 1)

ProcessADIR ==
    /\ ppc = "ready" /\ Requested /\ mode = "ADIR"
    /\ Finish(RunADIR)
    /\ UNCHANGED <<nodeVars, inputs, links, fit, callVars>>

RECURSIVE KeysOfBatches(_)
\* the lists of keys the first k batches can get in mode ACYL
KeysOfBatches(k) ==
    IF k = 0 THEN {<<>>}
    ELSE {Append(s, ks) : s \in KeysOfBatches(k - 1),
                          ks \in KeysACYL(fit.matrix, fit.center, inputs.Vertices[k])}

\* the lists of keys a run in mode md can get for its batches
KeysOfRun(md) == IF md = "ACYL" /\ Requested THEN KeysOfBatches(NumBatches) ELSE {<<>>}

\* verts_out, poly_edge_out and item_order of mode ACYL, or the exception;
\* keys holds the keys of every batch
RunACYL(keys) ==
    Gather([k \in 1..NumBatches |->
            BatchACYL(inputs.Vertices[k], PolyBatch(k), keys[k], reverse,
                      poly_output, order_output)], 1)

ProcessACYL ==
    /\ ppc = "ready" /\ Requested /\ mode = "ACYL"
    /\ \E keys \in KeysOfRun(mode) : Finish(RunACYL(keys))
    /\ UNCHANGED <<nodeVars, inputs, links, fit, callVars>>

\* verts_out, poly_edge_out and item_order of mode DIST, or the exception; inp
\* holds the socket of the mode
RunDIST(inp) ==
    Gather([k \in 1..NumBatches |->
            BatchDIST(inputs.Vertices[k], PolyBatch(k), BaseIn(inp, k), poly_output, order_output)], 1)

ProcessDIST ==
    /\ ppc = "ready" /\ Requested /\ mode = "DIST"
    /\ Finish(RunDIST(inputs))
    /\ UNCHANGED <<nodeVars, inputs, links, fit, callVars>>

\* verts_out, poly_edge_out and item_order of mode AXIS, or the exception; inp
\* holds the socket of the mode
RunAXIS(inp) ==
    Gather([k \in 1..AxisBatches(inp) |->
            BatchAXIS(inputs.Vertices[k], PolyBatch(k), MatOf(inp, k), poly_output, order_output)], 1)

ProcessAXIS ==
    /\ ppc = "ready" /\ Requested /\ mode = "AXIS"
    /\ Finish(RunAXIS(inputs))
    /\ UNCHANGED <<nodeVars, inputs, links, fit, callVars>>

\* verts_out, poly_edge_out and item_order of mode USER, or the exception; inp
\* holds the socket of the mode
RunUSER(inp) ==
    Gather([k \in 1..Min(NumBatches, Len(inp.IndexData)) |->
        BatchUSER(inputs.Vertices[k], PolyBatch(k), inp.IndexData[k],
                  poly_output, order_output)], 1)

\* with 'Index Data' not linked process returns before any sv_set
ProcessUSER ==
    /\ ppc = "ready" /\ Requested /\ mode = "USER"
    /\ IF inputs.IndexData_linked
       THEN Finish(RunUSER(inputs))
       ELSE ppc' = "done" /\ UNCHANGED outputs
    /\ UNCHANGED <<nodeVars, inputs, links, fit, callVars>>

\* verts_out, poly_edge_out and item_order of mode CONNEX, or the exception
RunCONNEX ==
    Gather([k \in 1..(IF poly_in THEN NumBatches ELSE 0) |->
            BatchCONNEX(inputs.Vertices[k], inputs.PolyEdge[k], limit_mode)], 1)

\* with PolyEdge not linked the three lists stay empty
ProcessCONNEX ==
    /\ ppc = "ready" /\ Requested /\ mode = "CONNEX"
    /\ Finish(RunCONNEX)
    /\ UNCHANGED <<nodeVars, inputs, links, fit, callVars>>

\* process run once more in mode XYZ on the lists it wrote: the Vertices
\* output, and the PolyEdge output when it was written, are the new inputs
ResortXYZ ==
    /\ ppc = "done" /\ vert_output /\ mode = "XYZ"
    /\ LET verts == outputs.Vertices.data
           polys == IF poly_output THEN outputs.PolyEdge.data ELSE inputs.PolyEdge
           res == Gather([k \in 1..NumBatches |->
                     BatchXYZ(verts[k], IF poly_in THEN polys[k] ELSE <<>>,
                              reverse_x, reverse_y, reverse_z, poly_output, order_output)], 1)
       IN /\ inputs' = [inputs EXCEPT !.Vertices = verts, !.PolyEdge = polys]
          /\ Finish(res)
    /\ UNCHANGED <<nodeVars, links, fit, callVars>>

\* a run of process from its first line in mode md, inp holding the socket of
\* the mode and keys the keys of mode ACYL: it returns early (nothing
\* requested, or mode USER without 'Index Data'), or gets as far as the three
\* lists, or raises
process(md, inp, keys) ==
    IF ~Requested \/ (md = "USER" /\ ~inp.IndexData_linked)
    THEN [early |-> TRUE, res |-> Gather(<<>>, 1)]
    ELSE [early |-> FALSE,
          res |-> CASE md = "XYZ" -> RunXYZ
                    [] md = "AXYZ" -> RunAXYZ
                    [] md = "ADIR" -> RunADIR
                    [] md = "ACYL" -> RunACYL(keys)
                    [] md = "DIST" -> RunDIST(inp)
                    [] md = "AXIS" -> RunAXIS(inp)
                    [] md = "USER" -> RunUSER(inp)
                    [] md = "CONNEX" -> RunCONNEX]

\* the input sockets after lines 163-187: the third socket is removed, and the
\* one the new mode adds is not linked and holds no data ('Base Point' its default)
Rewired ==
    [inputs EXCEPT !.BasePoint = <<(<<Origin>>)>>,
                   !.IndexData = <<>>, !.IndexData_linked = FALSE,
                   !.Mat = <<>>, !.Mat_linked = FALSE]

\* mode_change: the mode is set, the input sockets after the second are
\* removed and the socket of the new mode is added, not linked; then
\* updateNode runs process in the new mode, which writes the outputs it
\* writes, returns early or raises; what it does not write stays as it was.
\* The first two sockets, the links and the other properties are not touched.
ModeChange ==
    /\ changes_left > 0
    /\ changes_left' = changes_left - 1
    /\ \E md \in Modes :
        /\ mode' = md
        /\ inputs' = Rewired
        /\ \E keys \in KeysOfRun(md) : \E run \in {process(md, Rewired, keys)} :
            /\ ppc' = IF run.res.err # "" THEN "raised" ELSE "done"
            /\ outputs' = IF run.early \/ run.res.err # "" THEN outputs ELSE Written(run.res)
    /\ UNCHANGED <<limit_mode, reverse_x, reverse_y, reverse_z, reverse, links, fit, callVars>>

Next ==
    \/ ModeChange
    \/ ProcessNothing
    \/ ProcessXYZ
    \/ ProcessAXYZ
    \/ ProcessADIR
    \/ ProcessACYL
    \/ ProcessDIST
    \/ ProcessAXIS
    \/ ProcessUSER
    \/ ProcessCONNEX
    \/ ResortXYZ

Spec == Init /\ [][Next]_vars

\* ------------------------------------- a call of sort_vertices_by_connexions
\* point i of a batch with pairwise distinct coordinates
ConnexPoint(i) == <<i, 0, 0>>

\* the batch of n points
ConnexVerts(n) == [m \in 1..n |-> ConnexPoint(m - 1)]

NoInputs == [Vertices |-> <<>>, PolyEdge |-> <<>>, PolyEdge_linked |-> FALSE,
             BasePoint |-> <<(<<Origin>>)>>, IndexData |-> <<>>, IndexData_linked |-> FALSE,
             Mat |-> <<>>, Mat_linked |-> FALSE]

InitConnex ==
    /\ mode = "CONNEX"
    /\ limit_mode \in BOOLEAN
    /\ reverse_x = FALSE /\ reverse_y = FALSE /\ reverse_z = FALSE /\ reverse = FALSE
    /\ changes_left = 0
    /\ inputs = NoInputs
    /\ links = [Vertices |-> FALSE, PolyEdge |-> FALSE, ItemOrder |-> FALSE]
    /\ fit = NoFit
    /\ outputs = NoOutputs
    /\ ppc = "idle"
    /\ \E n \in 1..MaxConnexVerts :
        /\ verts_in = ConnexVerts(n)
        /\ edges_in \in {s \in SeqsUpTo((0..(n - 1)) \X (0..(n - 1)),
                                          Min(MaxEdges, (MaxConnexSize - n) \div 2)) :
                            Len(s) >= 1}
    /\ walk = NoWalk
    /\ cpc = "call"

\* CallConnex that pops the start edge from edges_in itself
CallConnex_InPlace ==
    /\ cpc = "call"
    /\ walk' = WalkStart(verts_in, edges_in, limit_mode)
    /\ cpc' = IF walk'.err # "" THEN "raised" ELSE "loop"
    /\ edges_in' = IF walk'.err # "" THEN edges_in ELSE Pop(edges_in, walk'.ed_index)
    /\ UNCHANGED <<nodeVars, procVars, verts_in>>

\* lines 63-87: the arrays, the start edge, the first pop
CallConnex ==
    /\ cpc = "call"
    /\ walk' = WalkStart(verts_in, edges_in, limit_mode)
    /\ cpc' = IF walk'.err # "" THEN "raised" ELSE "loop"
    /\ UNCHANGED <<nodeVars, procVars, verts_in, edges_in>>

\* one pass of the loop of lines 89-133
StepConnex ==
    /\ cpc = "loop"
    /\ walk.j < Len(edges_in)
    /\ walk' = WalkStep(verts_in, edges_in, walk)
    /\ cpc' = IF walk'.err # "" THEN "raised" ELSE "loop"
    /\ UNCHANGED <<nodeVars, procVars, verts_in, edges_in>>

\* lines 134-141: the unconnected vertices, and the return
ReturnConnex ==
    /\ cpc = "loop"
    /\ walk.j >= Len(edges_in)
    /\ walk' = AddUnconnected(verts_in, walk)
    /\ cpc' = "return"
    /\ UNCHANGED <<nodeVars, procVars, verts_in, edges_in>>

NextConnex == CallConnex \/ StepConnex \/ ReturnConnex

SpecConnex == InitConnex /\ [][NextConnex]_vars

\* the batch of n points of which the first and the second lie in one place,
\* and so the third and the fourth
PairedVerts(n) == [m \in 1..n |-> ConnexPoint((m - 1) \div 2)]

\* the calls on the smaller batches, of points apart and of points that
\* coincide, which run on once made: Python executes the body of the function
\* statement by statement
InitConnexFair ==
    /\ mode = "CONNEX"
    /\ limit_mode \in BOOLEAN
    /\ reverse_x = FALSE /\ reverse_y = FALSE /\ reverse_z = FALSE /\ reverse = FALSE
    /\ changes_left = 0
    /\ inputs = NoInputs
    /\ links = [Vertices |-> FALSE, PolyEdge |-> FALSE, ItemOrder |-> FALSE]
    /\ fit = NoFit
    /\ outputs = NoOutputs
    /\ ppc = "idle"
    /\ \E n \in 1..MaxFairVerts :
        /\ verts_in \in {ConnexVerts(n), PairedVerts(n)}
        /\ edges_in \in {s \in SeqsUpTo((0..(n - 1)) \X (0..(n - 1)),
                                          Min(MaxEdges, (MaxFairSize - n) \div 2)) :
                            Len(s) >= 1}
    /\ walk = NoWalk
    /\ cpc = "call"

SpecConnexFair == InitConnexFair /\ [][NextConnex]_vars /\ WF_vars(NextConnex)

\* ------------------------------------------------- words the claims are in
\* s holds each of 0..n-1 exactly once
IsPerm(s, n) == Len(s) = n /\ \A i \in 0..(n - 1) : \E k \in 1..n : s[k] = i

\* the place of original index i in an order that holds it
PosIn(order, i) == CHOOSE k \in 1..Len(order) : order[k] = i

\* every reference of the PolyEdge batch p is one of 0..n-1
RefsValid(p, n) == \A k \in 1..Len(p) : \A r \in 1..Len(p[k]) : p[k][r] \in 0..(n - 1)

\* the number of edges that touch point x (a self-loop touches it twice)
Degree(edges, x) ==
    Cardinality({k \in 1..Len(edges) : edges[k][1] = x})
    + Cardinality({k \in 1..Len(edges) : edges[k][2] = x})

\* edges[k] joins x and y
Joins(edges, k, x, y) == {edges[k][1], edges[k][2]} = {x, y}

\* some edge joins x and y
Joined(edges, x, y) == \E k \in 1..Len(edges) : Joins(edges, k, x, y)

\* the points reached from the set S in at most n hops over the edges other than edge skip
RECURSIVE Grow(_, _, _, _)
Grow(edges, skip, S, n) ==
    IF n = 0 THEN S
    ELSE Grow(edges, skip,
              S \cup {edges[k][2] : k \in {q \in 1..Len(edges) : q # skip /\ edges[q][1] \in S}}
                \cup {edges[k][1] : k \in {q \in 1..Len(edges) : q # skip /\ edges[q][2] \in S}},
              n - 1)

\* the connected component of point x
Component(edges, x) == Grow(edges, 0, {x}, Len(edges))

\* every component is a simple open chain (or a single point): no point on
\* more than two edges, and no cycle (no edge whose ends stay connected without it)
IsChains(edges) ==
    /\ \A k \in 1..Len(edges) :
        /\ Degree(edges, edges[k][1]) <= 2
        /\ Degree(edges, edges[k][2]) <= 2
        /\ edges[k][2] \notin Grow(edges, k, {edges[k][1]}, Len(edges))

\* one simple open chain over all n points
IsOpenChain(edges, n) ==
    /\ n >= 2
    /\ Len(edges) = n - 1
    /\ IsChains(edges)
    /\ Component(edges, 0) = 0..(n - 1)

\* a call of sort_vertices_by_connexions has returned
Returned == cpc = "return"

\* ------------------------------------------------------------------ claims

\* C1 (as stated; refuted): in every non-connectivity mode (USER with one key
\* per point) and for every setting of the reversal flags, the Item order
\* written for a batch of N points holds each of 0..N-1 exactly once.
C1_ItemOrderIsPermutation ==
    (/\ ppc = "done"
     /\ mode # "CONNEX"
     /\ outputs.ItemOrder.set
     /\ mode = "USER" => \A k \in 1..Len(inputs.IndexData) :
                            Len(inputs.IndexData[k]) = Len(inputs.Vertices[k]))
    => \A k \in 1..Len(outputs.ItemOrder.data) :
          IsPerm(outputs.ItemOrder.data[k], Len(inputs.Vertices[k]))

\* C2 (as stated; refuted): for any N points, coordinates not necessarily
\* distinct, any non-empty list of edges over 0..N-1 and either limit_mode,
\* sort_vertices_by_connexions returns an index list that holds each of
\* 0..N-1 exactly once and a vertex list of length N.  Read on the Item order
\* and Vertices outputs of the CONNEX branch, which are the lists returned.
C2_ConnexIsPermutation ==
    (/\ ppc # "ready"
     /\ mode = "CONNEX"
     /\ poly_in /\ vert_output /\ order_output
     /\ Len(inputs.PolyEdge[1]) > 0
     /\ RefsValid(inputs.PolyEdge[1], Len(inputs.Vertices[1])))
    => /\ ppc = "done"
       /\ IsPerm(outputs.ItemOrder.data[1], Len(inputs.Vertices[1]))
       /\ Len(outputs.Vertices.data[1]) = Len(inputs.Vertices[1])

\* the number of returned edges that stand for an edge joining x and y
CountOut(x, y) ==
    Cardinality({k \in 1..Len(walk.edges_out) :
        {At(walk.index, walk.edges_out[k][1]), At(walk.index, walk.edges_out[k][2])} = {x, y}})

\* the number of input edges joining x and y
CountIn(x, y) == Cardinality({k \in 1..Len(edges_in) : Joins(edges_in, k, x, y)})

\* C3 (as stated; refuted): for points with distinct coordinates, a non-empty
\* list of valid edges and either limit_mode, every input edge is returned
\* exactly once: read back through the returned index list, the returned edges
\* are the same multiset of unordered pairs as the input edges.
C3_EveryEdgeOnce ==
    Returned =>
        \A x \in 0..(Len(verts_in) - 1) : \A y \in 0..(Len(verts_in) - 1) :
            CountOut(x, y) = CountIn(x, y)

\* C4: with limit_mode on, a simple open chain over N >= 2 points (its N-1
\* edges in any order and orientation) comes out starting at one of its two
\* ends, every point once, consecutive output points joined by an input edge,
\* and the returned edges are [[0,1],[1,2],...,[N-2,N-1]].
C4_OpenChain ==
    (Returned /\ limit_mode /\ IsOpenChain(edges_in, Len(verts_in)))
    => LET n == Len(verts_in) IN
       /\ IsPerm(walk.index, n)
       /\ Degree(edges_in, walk.index[1]) = 1
       /\ \A j \in 1..(n - 1) : Joined(edges_in, walk.index[j], walk.index[j + 1])
       /\ walk.verts_out = [j \in 1..n |-> At(verts_in, walk.index[j])]
       /\ walk.edges_out = [j \in 1..(n - 1) |-> <<j - 1, j>>]

\* C4 witness: a returned chain over four points, walked from point 1, whose
\* first listed edge is the inner edge, given against the walk
C4_Witness ==
    /\ Returned /\ limit_mode /\ IsOpenChain(edges_in, 4)
    /\ edges_in[1] = <<3, 0>>
    /\ walk.index = <<1, 0, 3, 2>>

\* C5: with limit_mode on and every component a simple open chain, each chain
\* takes consecutive output places, in walk order along the chain, one chain
\* after the other, and no point is lost or duplicated.
C5_DisjointChains ==
    (Returned /\ limit_mode /\ IsChains(edges_in))
    => LET n == Len(verts_in) IN
       /\ IsPerm(walk.index, n)
       /\ \A a \in 1..n : \A b \in (a + 1)..n :
            walk.index[b] \in Component(edges_in, walk.index[a])
            => /\ \A c \in a..b : walk.index[c] \in Component(edges_in, walk.index[a])
               /\ Joined(edges_in, walk.index[b - 1], walk.index[b])

\* C5 witness: two chains, one of one edge and one of two, both returned
C5_Witness ==
    /\ Returned /\ limit_mode /\ IsChains(edges_in)
    /\ Len(verts_in) = 5 /\ Len(edges_in) = 3
    /\ \A x \in 0..4 : Degree(edges_in, x) >= 1
    /\ walk.index[1] # 0

\* C6 (as stated; refuted): for either limit_mode, every point touched by no
\* edge comes out exactly once, after every point touched by an edge, the
\* untouched points in their original order, and its place is in no returned edge.
C6_IsolatedLast ==
    Returned =>
        \A i \in 0..(Len(verts_in) - 1) :
            Degree(edges_in, i) = 0 =>
                /\ Cardinality({k \in 1..Len(walk.index) : walk.index[k] = i}) = 1
                /\ \A t \in 0..(Len(verts_in) - 1) :
                    /\ Contains(walk.index, t)
                    /\ Degree(edges_in, t) > 0 => PosIn(walk.index, t) < PosIn(walk.index, i)
                    /\ (Degree(edges_in, t) = 0 /\ t < i)
                            => PosIn(walk.index, t) < PosIn(walk.index, i)
                /\ \A k \in 1..Len(walk.edges_out) :
                    /\ walk.edges_out[k][1] + 1 # PosIn(walk.index, i)
                    /\ walk.edges_out[k][2] + 1 # PosIn(walk.index, i)

\* the Item order of batch v in mode ADIR or ACYL with the reverse flag
\* disabled: in mode ACYL one for every way the rounding of the keys can fall
OrdersUnreversed(v) ==
    IF mode = "ADIR" THEN {BatchADIR(v, <<>>, fit.direction, FALSE, FALSE, TRUE).order[1]}
    ELSE {BatchACYL(v, <<>>, keys, FALSE, FALSE, TRUE).order[1] :
              keys \in KeysACYL(fit.matrix, fit.center, v)}

\* the references of p rewritten to the places they have in order
Reindexed(p, order) == [k \in 1..Len(p) |-> [r \in 1..Len(p[k]) |-> PosIn(order, p[k][r]) - 1]]

\* C7 (as stated; refuted): in modes ADIR and ACYL the reverse flag gives
\* exactly the reverse of the order got with the flag disabled, and all three
\* outputs show that reversed order: Vertices, Item order (N entries, with
\* Vertices[j] the input point Item order[j]) and PolyEdge re-indexed through it.
C7_ReverseFlag ==
    (/\ ppc # "ready"
     /\ mode \in {"ADIR", "ACYL"}
     /\ reverse
     /\ Requested
     /\ RefsValid(PolyBatch(1), Len(inputs.Vertices[1])))
    => \E unreversed \in OrdersUnreversed(inputs.Vertices[1]) :
          LET v == inputs.Vertices[1]
              want == reversed(unreversed)
          IN /\ ppc = "done"
             /\ outputs.Vertices.set => outputs.Vertices.data[1] = [j \in 1..Len(v) |-> At(v, want[j])]
             /\ outputs.ItemOrder.set => outputs.ItemOrder.data[1] = want
             /\ outputs.PolyEdge.set => outputs.PolyEdge.data[1] = Reindexed(PolyBatch(1), want)

\* the orders of n points
Perms(n) == {f \in [1..n -> 0..(n - 1)] : \A i \in 0..(n - 1) : \E k \in 1..n : f[k] = i}

\* the outputs written for batch k all show the order ord of the batch's points
ShowsOrder(k, ord) ==
    LET v == inputs.Vertices[k]
        p == PolyBatch(k)
    IN /\ outputs.ItemOrder.set => outputs.ItemOrder.data[k] = ord
       /\ outputs.Vertices.set => outputs.Vertices.data[k] = [j \in 1..Len(v) |-> At(v, ord[j])]
       /\ outputs.PolyEdge.set =>
            /\ Len(outputs.PolyEdge.data[k]) = Len(p)
            /\ \A e \in 1..Len(p) :
                /\ Len(outputs.PolyEdge.data[k][e]) = Len(p[e])
                /\ \A r \in 1..Len(p[e]) : At(ord, outputs.PolyEdge.data[k][e][r]) = p[e][r]

\* process ran in one of the modes XYZ, DIST, AXIS, USER on batches whose
\* PolyEdge references are all in 0..N-1, with some output requested
RanKeyed ==
    /\ ppc # "ready"
    /\ mode \in {"XYZ", "DIST", "AXIS", "USER"}
    /\ Requested
    /\ mode = "USER" => inputs.IndexData_linked
    /\ \A k \in 1..NumBatches : RefsValid(PolyBatch(k), Len(inputs.Vertices[k]))

\* the three outputs describe one permutation of every batch
OnePermutation ==
    /\ ppc = "done"
    /\ \A k \in 1..NumBatches : \E ord \in Perms(Len(inputs.Vertices[k])) : ShowsOrder(k, ord)

\* C8 (as stated; refuted): in modes XYZ, DIST, AXIS and USER, for every
\* batch whose edges and faces reference only 0..N-1, the three outputs
\* describe one permutation: Vertices[j] is the input point Item order[j], and
\* PolyEdge has the input's elements, in order and length, every reference n
\* replaced by the place j with Item order[j] = n.
C8_OnePermutation == RanKeyed => OnePermutation

\* every batch of mode USER has a key for each of its points
KeyPerPoint ==
    mode = "USER" =>
        /\ Len(inputs.IndexData) >= NumBatches
        /\ \A k \in 1..NumBatches : Len(inputs.IndexData[k]) >= Len(inputs.Vertices[k])

\* C8 (amended): the same, in mode USER for the batches that come with at
\* least one key per point.
C8_OnePermutationKeyed == (RanKeyed /\ KeyPerPoint) => OnePermutation

\* C8 witness: a finished XYZ run of three points with an edge list and a face,
\* whose order moves every point
C8_Witness ==
    /\ ppc = "done" /\ mode = "XYZ"
    /\ inputs.PolyEdge[1] = Mixed(3)
    /\ outputs.PolyEdge.set /\ outputs.Vertices.set
    /\ outputs.ItemOrder.set /\ outputs.ItemOrder.data[1] = <<1, 2, 0>>

\* some PolyEdge reference of some batch is outside 0..N-1
BadReference ==
    /\ poly_in
    /\ \E k \in 1..NumBatches : ~RefsValid(inputs.PolyEdge[k], Len(inputs.Vertices[k]))

\* the run reads the references: PolyEdge is linked on both sides and, in mode
\* USER, the keys are linked too
ReadsReferences == poly_output /\ (mode = "USER" => inputs.IndexData_linked)

\* C9 (as stated, for the runs that read the references; refuted): in every
\* mode, CONNEX included, a reference outside 0..N-1 (too large or negative)
\* makes process raise, with none of the outputs written; no such run completes
\* normally.
C9_BadReferenceRaises ==
    (ppc # "ready" /\ BadReference /\ ReadsReferences)
        => (ppc = "raised" /\ outputs = NoOutputs)

\* point i comes before point j in the XYZ order: the later axis decides first,
\* downwards when its flag is set, and equal points keep their order
XYZBefore(v, i, j, rx, ry, rz) ==
    LET P == At(v, i)
        Q == At(v, j)
    IN IF P[3] # Q[3] THEN (IF rz THEN P[3] > Q[3] ELSE P[3] < Q[3])
       ELSE IF P[2] # Q[2] THEN (IF ry THEN P[2] > Q[2] ELSE P[2] < Q[2])
       ELSE IF P[1] # Q[1] THEN (IF rx THEN P[1] > Q[1] ELSE P[1] < Q[1])
       ELSE i < j

\* the XYZ order of v with the flag of axis c toggled
ToggledOrder(v, c) ==
    OrderOf(SortXYZ(v, IF c = 1 THEN ~reverse_x ELSE reverse_x,
                       IF c = 2 THEN ~reverse_y ELSE reverse_y,
                       IF c = 3 THEN ~reverse_z ELSE reverse_z))

\* C10: the XYZ order is that of three successive stable sorts, by x, then y,
\* then z, each descending exactly when its flag is set: z decides, then y,
\* then x, then the original index; toggling the flag of an axis keeps the
\* relative order of two points equal on that axis; and points that differ in
\* x only come out by ascending x with no flag and descending x with reverse_x.
C10_XYZOrder ==
    (ppc = "done" /\ mode = "XYZ" /\ outputs.ItemOrder.set)
    => \A k \in 1..NumBatches :
         LET v == inputs.Vertices[k]
             ord == outputs.ItemOrder.data[k]
         IN /\ IsPerm(ord, Len(v))
            /\ \A a \in 1..Len(v) : \A b \in (a + 1)..Len(v) :
                 /\ XYZBefore(v, ord[a], ord[b], reverse_x, reverse_y, reverse_z)
                 /\ (At(v, ord[a])[2] = At(v, ord[b])[2] /\ At(v, ord[a])[3] = At(v, ord[b])[3])
                    => IF reverse_x THEN At(v, ord[a])[1] >= At(v, ord[b])[1]
                       ELSE At(v, ord[a])[1] <= At(v, ord[b])[1]
            /\ \A c \in 1..3 :
                 LET toggled == ToggledOrder(v, c)
                 IN \A a \in 1..Len(v) : \A b \in (a + 1)..Len(v) :
                      At(v, ord[a])[c] = At(v, ord[b])[c]
                      => PosIn(toggled, ord[a]) < PosIn(toggled, ord[b])

\* C10 witness: a finished XYZ run with reverse_x and reverse_z set, of three
\* points of which the first two are equal and the third has another x
C10_Witness ==
    /\ ppc = "done" /\ mode = "XYZ" /\ outputs.ItemOrder.set
    /\ reverse_x /\ ~reverse_y /\ reverse_z
    /\ inputs.Vertices[1] = <<(<<0, 1, 1>>), (<<0, 1, 1>>), (<<1, 1, 1>>)>>
    /\ outputs.ItemOrder.data[1] = <<2, 0, 1>>

\* the number of points of batch k that are sorted: mode USER pairs the keys
\* with the points and sorts as many as there are of both
SortedCount(k) ==
    IF mode = "USER" THEN Min(Len(inputs.IndexData[k]), Len(inputs.Vertices[k]))
    ELSE Len(inputs.Vertices[k])

\* the sort key of point i of batch k in the mode of the run; in mode ACYL
\* the point itself: two points in one place get the same (phi, z, rho)
\* however the rounding falls, and two points in different places differ in
\* one of the three
SortKey(k, i) ==
    LET P == At(inputs.Vertices[k], i)
    IN CASE mode = "XYZ" -> P
         [] mode = "DIST" -> <<distK(P, BaseOf(k))>>
         [] mode = "USER" -> <<At(inputs.IndexData[k], i)>>
         [] mode = "ADIR" -> KeyADIR(fit.direction, P)
         [] mode = "ACYL" -> P

\* in the order ord, points with equal sort keys keep their original order
TiesKeepOrder(k, ord) ==
    \A i \in 0..(Len(ord) - 1) : \A j \in (i + 1)..(Len(ord) - 1) :
        (Contains(ord, i) /\ Contains(ord, j) /\ SortKey(k, i) = SortKey(k, j))
        => PosIn(ord, i) < PosIn(ord, j)

\* C11 (as stated; refuted): in the key-sorting modes XYZ, DIST, USER, ADIR and
\* ACYL, for every setting of the reversal flags, two points of a batch whose
\* sort keys are all equal come out in their original order, the lower
\* original index first: the Vertices output is the batch in an order that
\* keeps such points in order, and so is an Item order that lists the points
\* (for every batch the run wrote).
C11_TiesKeepOrder ==
    (/\ ppc = "done"
     /\ mode \in {"XYZ", "DIST", "USER", "ADIR", "ACYL"}
     /\ mode = "USER" => inputs.IndexData_linked)
    => \A k \in 1..NumBatches :
         /\ (outputs.Vertices.set /\ k <= Len(outputs.Vertices.data)) =>
              \E ord \in Perms(SortedCount(k)) :
                 /\ outputs.Vertices.data[k]
                        = [j \in 1..SortedCount(k) |-> At(inputs.Vertices[k], ord[j])]
                 /\ TiesKeepOrder(k, ord)
         /\ (/\ outputs.ItemOrder.set /\ k <= Len(outputs.ItemOrder.data)
             /\ Len(outputs.ItemOrder.data[k]) = SortedCount(k))
              => TiesKeepOrder(k, outputs.ItemOrder.data[k])

\* C12: in mode XYZ, for every batch and every setting of reverse_x, reverse_y
\* and reverse_z, sorting the Vertices output again with the same flags gives
\* the identity Item order [0, 1, ..., N-1], also when points share coordinates.
\* (The step out of a finished run that leaves the mode as set is ResortXYZ,
\* the second sort.)
C12_XYZIdempotent ==
    [][(ppc = "done" /\ mode = "XYZ" /\ changes_left' = changes_left) =>
        /\ ppc' = "done"
        /\ outputs'.ItemOrder.set =>
             \A k \in 1..NumBatches :
                outputs'.ItemOrder.data[k] = Range(Len(outputs.Vertices.data[k]))]_vars

\* C12 witness: three points, two of them equal, sorted with reverse_x and
\* reverse_y and sorted again; the edges and the face are those the first
\* sort wrote, re-indexed
C12_Witness ==
    /\ ppc = "done" /\ mode = "XYZ" /\ reverse_x /\ reverse_y
    /\ inputs.Vertices[1] = <<(<<1, 1, 0>>), (<<0, 1, 0>>), (<<0, 1, 0>>)>>
    /\ inputs.PolyEdge[1] \notin {Ring(3), Mixed(3)}
    /\ outputs.ItemOrder.set /\ outputs.ItemOrder.data[1] = <<0, 1, 2>>
    /\ outputs.Vertices.set /\ outputs.Vertices.data = inputs.Vertices

\* the squared Euclidean distance of the points P and Q
SquaredDistance(P, Q) ==
    LET dx == P[1] - Q[1]
        dy == P[2] - Q[2]
        dz == P[3] - Q[3]
    IN dx * dx + dy * dy + dz * dz

\* C13: in mode DIST the Item order lists the original indices by
\* non-decreasing squared Euclidean distance to the batch's base point, equal
\* distances in original index order; base (0,0,0) and the points
\* [(3,0,0),(1,0,0),(2,0,0)] give [1,2,0].
C13_DistOrder ==
    (ppc = "done" /\ mode = "DIST" /\ outputs.ItemOrder.set)
    => \A k \in 1..NumBatches :
         LET v == inputs.Vertices[k]
             ord == outputs.ItemOrder.data[k]
             d(i) == SquaredDistance(At(v, i), BaseOf(k))
         IN /\ IsPerm(ord, Len(v))
            /\ \A a \in 1..Len(v) : \A b \in (a + 1)..Len(v) :
                 \/ d(ord[a]) < d(ord[b])
                 \/ d(ord[a]) = d(ord[b]) /\ ord[a] < ord[b]
            /\ (v = OnAxis /\ BaseOf(k) = Origin) => ord = <<1, 2, 0>>

\* C13 witness: the points [(3,0,0),(1,0,0),(2,0,0)] sorted by distance to
\* the origin
C13_Witness ==
    /\ ppc = "done" /\ mode = "DIST"
    /\ inputs.Vertices[1] = OnAxis /\ BaseOf(1) = Origin
    /\ outputs.ItemOrder.set /\ outputs.ItemOrder.data[1] = <<1, 2, 0>>

\* C14: process writes the PolyEdge output only when the PolyEdge input is
\* linked and the PolyEdge output is linked; a run with the PolyEdge output
\* linked and the input not linked raises nothing, in any mode, and leaves
\* that output unwritten; and with none of the three outputs linked process
\* returns without writing any output.
C14_PolyEdgeOnlyWhenSupplied ==
    /\ outputs.PolyEdge.set => (inputs.PolyEdge_linked /\ links.PolyEdge)
    /\ (ppc # "ready" /\ links.PolyEdge /\ ~inputs.PolyEdge_linked)
        => (ppc = "done" /\ ~outputs.PolyEdge.set)
    /\ (ppc # "ready" /\ ~links.Vertices /\ ~links.PolyEdge /\ ~links.ItemOrder)
        => (ppc = "done" /\ outputs = NoOutputs)

\* C14 witness: a finished run with the PolyEdge output linked and no edges
\* supplied, which wrote its vertices and no PolyEdge
C14_Witness ==
    /\ ppc = "done" /\ mode = "ADIR" /\ reverse
    /\ links.PolyEdge /\ ~inputs.PolyEdge_linked
    /\ outputs.Vertices.set /\ Len(outputs.Vertices.data[1]) = 3
    /\ ~outputs.PolyEdge.set

\* no edge index is in the list twice
NoRepeat(s) == \A a \in 1..Len(s) : \A b \in (a + 1)..Len(s) : s[a] # s[b]

\* C15 (as stated; refuted): for every non-empty list of valid edges, cycles, duplicate edges,
\* self-loops and points of degree 3 and more included, and either limit_mode,
\* the call returns; the loop runs exactly len(edges_in) times, and every edge
\* is removed from the remaining-edge arrays at most once.
C15_Terminates ==
    /\ <>Returned
    /\ [](/\ cpc # "raised"
          /\ walk.j <= Len(edges_in)
          /\ Returned => walk.j = Len(edges_in)
          /\ NoRepeat(walk.popped)
          /\ Len(walk.popped) + Len(walk.edges_copy.edges_index) = (IF cpc = "call" THEN 0 ELSE Len(edges_in)))
    /\ [][StepConnex => walk'.j = walk.j + 1]_vars

\* the point the walk has reached: the "to" end of the edge about to be emitted
ReachedPoint ==
    LET e == At(edges_in, walk.ed_index)
    IN IF walk.or_side = 1 THEN e[1] ELSE e[2]

\* the original indices of the edges not consumed yet
Unconsumed == {walk.edges_copy.edges_index[m] : m \in 1..Len(walk.edges_copy.edges_index)}

\* the unconsumed edges whose first, or second, endpoint is point x
LeavingFrom(x) == {k \in Unconsumed : At(edges_in, k)[1] = x}
ArrivingAt(x) == {k \in Unconsumed : At(edges_in, k)[2] = x}

\* the lowest edge index of a non-empty set
Lowest(S) == CHOOSE k \in S : \A m \in S : k <= m

\* C16 (as stated; refuted): when the walk reaches a point with more than one
\* unconsumed incident edge, it continues along the one with the lowest
\* original edge index, whether the point is that edge's first or second endpoint.
C16_LowestIncidentEdge ==
    [][StepConnex =>
        LET incident == LeavingFrom(ReachedPoint) \cup ArrivingAt(ReachedPoint)
        IN Cardinality(incident) > 1 => walk'.ed_index = Lowest(incident)]_vars

\* C16 (amended): it continues along the unconsumed edge of lowest original
\* index among those whose first endpoint is the point, walked first to
\* second, and only when there is none along the one of lowest original index
\* among those whose second endpoint is the point, walked second to first.
C16_FirstEndpointsFirst ==
    [][StepConnex =>
        LET leaving == LeavingFrom(ReachedPoint)
            arriving == ArrivingAt(ReachedPoint)
        IN Cardinality(leaving \cup arriving) > 1 =>
            IF leaving # {}
            THEN walk'.ed_index = Lowest(leaving) /\ walk'.or_side = 0
            ELSE walk'.ed_index = Lowest(arriving) /\ walk'.or_side = 1]_vars

\* C16 witness: from point 1 the walk has gone on along edge 2, which leaves
\* point 1, and not along edge 1, which arrives there
C16_Witness ==
    /\ cpc = "loop" /\ ~limit_mode
    /\ edges_in = <<(<<0, 1>>), (<<2, 1>>), (<<1, 3>>)>>
    /\ walk.j = 1 /\ walk.ed_index = 2 /\ walk.popped = <<0, 2>>



\* the step about to be taken is a restart on limits: the walk is at a dead
\* end (no unconsumed edge touches the point reached), edges are left, and
\* the call found limits
RestartsOnLimits ==
    /\ walk.limiting
    /\ Unconsumed # {}
    /\ LeavingFrom(ReachedPoint) \cup ArrivingAt(ReachedPoint) = {}

\* the limits (point, side, edge) not used yet whose point is not in the
\* order given as argument
OpenLimits(order) ==
    {walk.limits[m] : m \in {q \in 1..Len(walk.limits) : ~Contains(order, walk.limits[q][1])}}

\* C17 (as stated; refuted): with limit_mode on, when the walk restarts after
\* a dead end and several unused limits have unvisited points, the limit
\* chosen is the one whose edge has the lowest original edge index.
C17_LowestEdgeLimit ==
    [][(StepConnex /\ RestartsOnLimits) =>
        LET open == OpenLimits(walk'.index)
        IN Cardinality(open) > 1 =>
            walk'.ed_index = Lowest({lim[3] : lim \in open})]_vars

\* C17 (amended): the limit chosen is the one whose point has the lowest
\* original index, and the walk goes on from that point along its edge.
C17_LowestPointLimit ==
    [][(StepConnex /\ RestartsOnLimits) =>
        LET open == OpenLimits(walk'.index)
        IN Cardinality(open) > 1 =>
            \E lim \in open :
                /\ lim[1] = Lowest({l[1] : l \in open})
                /\ walk'.ed_index = lim[3]
                /\ walk'.or_side = lim[2]]_vars

\* C17 witness: after the chain 0-1 the walk has restarted at point 2, the
\* end of edge 2, and not at point 4, the end of edge 1
C17_Witness ==
    /\ cpc = "loop" /\ limit_mode
    /\ edges_in = <<(<<0, 1>>), (<<4, 3>>), (<<3, 2>>)>>
    /\ walk.j = 1 /\ walk.ed_index = 2 /\ walk.or_side = 1

\* the points touched by exactly one edge
LimitPoints == {x \in 0..(Len(verts_in) - 1) : Degree(edges_in, x) = 1}

\* the order begins with the points a and b
BeginsWith(order, a, b) == Len(order) >= 2 /\ order[1] = a /\ order[2] = b

\* C18 (as stated; refuted): with limit_mode on and some point of degree 1,
\* the first walked edge is the edge of the first entry of the limit list (the
\* degree-1 point of lowest index), walked from that point, so that the order
\* begins with that point; with limit_mode off, or with no point of degree 1,
\* the first walked edge is edge 0, from its first endpoint to its second, so
\* that the order begins with edges_in[0][0], edges_in[0][1].
C18_WalkStart ==
    (cpc \in {"loop", "return"} /\ walk.j >= 1)
    => IF limit_mode /\ LimitPoints # {}
       THEN LET p == Lowest(LimitPoints)
                k == CHOOSE q \in 0..(Len(edges_in) - 1) : p \in {At(edges_in, q)[1], At(edges_in, q)[2]}
            IN /\ walk.popped[1] = k
               /\ Len(walk.index) >= 1 /\ walk.index[1] = p
       ELSE /\ walk.popped[1] = 0
            /\ BeginsWith(walk.index, edges_in[1][1], edges_in[1][2])

\* the step about to be taken ends at a dead end with edges left and goes on
\* with another edge: a new path segment begins
BeginsSegment ==
    /\ StepConnex
    /\ Unconsumed # {}
    /\ LeavingFrom(ReachedPoint) \cup ArrivingAt(ReachedPoint) = {}
    /\ walk'.ed_index # walk.ed_index

\* the point the new segment begins at: the "from" end of the edge chosen
SegmentStart ==
    LET e == At(edges_in, walk'.ed_index)
    IN IF walk'.or_side = 1 THEN e[2] ELSE e[1]

\* the segment begins at a point of degree 1 that is not in the order yet (so
\* that no segment began there before: the point a segment begins at is the
\* first one its first edge puts into the order)
AtFreshLimit ==
    /\ Degree(edges_in, SegmentStart) = 1
    /\ ~Contains(walk'.index, SegmentStart)

\* C19 (as stated; refuted): with limit_mode on, every path segment after the
\* first begins at a degree-1 point not yet emitted into the order, and no
\* limit point starts or restarts more than one segment.
C19_SegmentsFromLimits == [][(BeginsSegment /\ limit_mode) => AtFreshLimit]_vars

\* C19 (amended): the same, with limit_mode on and at least one point of
\* degree 1 among the points.
C19_SegmentsFromLimitsIfAny ==
    [][(BeginsSegment /\ limit_mode /\ LimitPoints # {}) => AtFreshLimit]_vars

\* C19 witness: after the chain 0-1 a second segment has begun at point 2,
\* and its edge is about to be walked
C19_Witness ==
    /\ cpc = "loop" /\ limit_mode
    /\ edges_in = <<(<<0, 1>>), (<<3, 4>>), (<<2, 3>>)>>
    /\ walk.j = 1 /\ walk.index = <<0, 1>>
    /\ walk.ed_index = 2 /\ walk.or_side = 0

\* one simple cycle over all n >= 3 points: n edges, every point on two of
\* them, all points connected
IsCycle(edges, n) ==
    /\ n >= 3
    /\ Len(edges) = n
    /\ \A x \in 0..(n - 1) : Degree(edges, x) = 2
    /\ Component(edges, 0) = 0..(n - 1)

\* C20: a single simple cycle over N >= 3 points, its N edges in any order
\* and orientation, comes out, for either limit_mode, with every point once,
\* consecutive output points joined by an input edge, and the returned edges
\* [[0,1],[1,2],...,[N-2,N-1],[N-1,0]].
C20_Cycle ==
    (Returned /\ IsCycle(edges_in, Len(verts_in)))
    => LET n == Len(verts_in) IN
       /\ IsPerm(walk.index, n)
       /\ \A j \in 1..(n - 1) : Joined(edges_in, walk.index[j], walk.index[j + 1])
       /\ walk.verts_out = [j \in 1..n |-> At(verts_in, walk.index[j])]
       /\ walk.edges_out = [j \in 1..n |-> <<j - 1, j % n>>]

\* C20 witness: a returned triangle whose edges are all given against the
\* walk or out of turn
C20_Witness ==
    /\ Returned /\ limit_mode
    /\ edges_in = <<(<<2, 0>>), (<<2, 1>>), (<<1, 0>>)>>
    /\ walk.index = <<2, 0, 1>>
    /\ walk.edges_out = <<(<<0, 1>>), (<<1, 2>>), (<<2, 0>>)>>

\* the call has just read its limits: the loop has not run yet
JustCalled == cpc = "loop" /\ walk.j = 0 /\ limit_mode

\* the entries find_limits returned: the one the walk starts from, taken off
\* the list, and those left on the list
FoundLimits ==
    {walk.limits[m] : m \in 1..Len(walk.limits)}
    \cup (IF walk.limiting
          THEN {<<At(edges_in, walk.ed_index)[walk.or_side + 1], walk.or_side, walk.ed_index>>}
          ELSE {})

\* how many entries find_limits returned
FoundCount == Len(walk.limits) + (IF walk.limiting THEN 1 ELSE 0)

\* the edges that touch point x
TouchedBy(x) == {k \in 1..Len(edges_in) : x \in {edges_in[k][1], edges_in[k][2]}}

\* the entries are one per point of S, each (point, side, edge) with
\* edges_in[edge][side] the point
OneEntryEach(S) ==
    /\ {t[1] : t \in FoundLimits} = S
    /\ FoundCount = Cardinality(S)
    /\ \A t \in FoundLimits :
         /\ t[2] \in {0, 1}
         /\ t[3] \in 0..(Len(edges_in) - 1)
         /\ At(edges_in, t[3])[t[2] + 1] = t[1]

\* C21 (as stated; refuted): find_limits returns exactly the points touched by
\* exactly one edge, self-loops and duplicate edges included, one entry
\* (point, side, edge) per such point with edges_in[edge][side] the point.
C21_TouchedByOneEdge ==
    JustCalled
    => OneEntryEach({x \in 0..(Len(verts_in) - 1) : Cardinality(TouchedBy(x)) = 1})

\* C21 (amended): find_limits returns exactly the points that occur exactly
\* once among the endpoints of the edges (a point whose only edge is a
\* self-loop occurs twice and is not returned), one entry (point, side, edge)
\* per such point with edges_in[edge][side] the point.
C21_OneEndpoint == JustCalled => OneEntryEach(LimitPoints)

\* C21 witness: a self-loop on point 1 and an edge from 2 to 0; the limits are
\* point 0, on side 1 of edge 1, where the walk starts, and point 2
C21_Witness ==
    /\ JustCalled
    /\ edges_in = <<(<<1, 1>>), (<<2, 0>>)>>
    /\ walk.limiting /\ walk.ed_index = 1 /\ walk.or_side = 1
    /\ walk.limits = <<(<<2, 0, 1>>)>>

\* C22 (as stated; refuted): connectivity mode given N points and an empty edge
\* list completes without error, for either limit_mode, and returns the N
\* points in their original order, Item order [0, ..., N-1] and an empty
\* re-indexed edge list.
C22_NoEdges ==
    (ppc # "ready" /\ mode = "CONNEX" /\ Requested /\ poly_in /\ inputs.PolyEdge = <<(<<>>)>>)
    => /\ ppc = "done"
       /\ vert_output => outputs.Vertices = [set |-> TRUE, data |-> inputs.Vertices]
       /\ order_output =>
            outputs.ItemOrder = [set |-> TRUE, data |-> <<Range(Len(inputs.Vertices[1]))>>]
       /\ poly_output => outputs.PolyEdge = [set |-> TRUE, data |-> <<(<<>>)>>]

\* what a call made now, with the arguments as they are, returns
CalledNow == sort_vertices_by_connexions(verts_in, edges_in, limit_mode)

\* C23: sort_vertices_by_connexions leaves verts_in and edges_in as they were
\* (same elements, same order, same endpoint orientation) for every input and
\* either limit_mode, the edges being consumed on copies; so a second call
\* with the same arguments returns what the first returned.
C23_ArgumentsKept ==
    /\ [][verts_in' = verts_in /\ edges_in' = edges_in]_vars
    /\ [](Returned =>
            LET again == CalledNow
            IN /\ again.err = ""
               /\ again.verts_out = walk.verts_out
               /\ again.edges_out = walk.edges_out
               /\ again.index = walk.index)

\* C23 witness: a returned call that consumed three edges, one of them turned
\* round, and restarted once; the arguments are the ones passed
C23_Witness ==
    /\ Returned /\ limit_mode
    /\ verts_in = ConnexVerts(5)
    /\ edges_in = <<(<<1, 0>>), (<<3, 4>>), (<<2, 1>>)>>
    /\ Len(walk.edges_copy.edges0) = 0
    /\ walk.popped = <<0, 2, 1>>

\* process ran in mode USER with the keys linked and some output requested
RanUser == ppc # "ready" /\ mode = "USER" /\ Requested /\ inputs.IndexData_linked

\* the batches a USER run goes through: as many as there are batches of
\* points, of edges when linked, and of keys
UserBatches == Min(NumBatches, Len(inputs.IndexData))

\* the points of batch k that get a key
KeptCount(k) == Min(Len(inputs.Vertices[k]), Len(inputs.IndexData[k]))

\* how often x is among the first n elements of s
CountIn1(s, n, x) == Cardinality({m \in 1..n : s[m] = x})

\* the outputs written hold UserBatches batches, batch k with the first
\* KeptCount(k) points of the input batch and with their indices
FirstPointsOut ==
    /\ outputs.Vertices.set = vert_output
    /\ outputs.ItemOrder.set = order_output
    /\ outputs.Vertices.set =>
         /\ Len(outputs.Vertices.data) = UserBatches
         /\ \A k \in 1..UserBatches :
              LET out == outputs.Vertices.data[k]
                  v == inputs.Vertices[k]
              IN /\ Len(out) = KeptCount(k)
                 /\ \A m \in 1..KeptCount(k) :
                      CountIn1(out, Len(out), v[m]) = CountIn1(v, KeptCount(k), v[m])
    /\ outputs.ItemOrder.set =>
         /\ Len(outputs.ItemOrder.data) = UserBatches
         /\ \A k \in 1..UserBatches : IsPerm(outputs.ItemOrder.data[k], KeptCount(k))
    /\ outputs.PolyEdge.set => Len(outputs.PolyEdge.data) = UserBatches

\* C24 (as stated; refuted): in mode USER a batch of N points with K keys
\* comes out with min(N, K) points, the first K sorted and the points K..N-1
\* dropped without any error, and the outputs hold as many batches as the
\* fewest of the batches of points, of edges when linked, and of keys.
C24_KeysTruncate == RanUser => (ppc = "done" /\ FirstPointsOut)

\* the PolyEdge output is written and an edge or face of a batch that is gone
\* through refers to a point that has no key (or to no point at all)
RefersToDropped ==
    /\ poly_output
    /\ \E k \in 1..UserBatches : ~RefsValid(PolyBatch(k), KeptCount(k))

\* C24 (amended): the same, without any error unless the PolyEdge output is
\* written and an edge or face refers to a dropped point: process then raises
\* and writes nothing.
C24_KeysTruncateUnlessReferred ==
    RanUser =>
        IF RefersToDropped THEN ppc = "raised" /\ outputs = NoOutputs
        ELSE ppc = "done" /\ FirstPointsOut

\* C24 witness: two batches of three points, one batch of two keys and edges
\* on point 0 alone; one batch of two points comes out, the first two points
\* turned round, with the edge re-indexed
C24_Witness ==
    /\ RanUser /\ ppc = "done"
    /\ Len(inputs.Vertices) = 2 /\ Len(inputs.Vertices[1]) = 3
    /\ inputs.IndexData = <<(<<1, 0>>)>>
    /\ inputs.PolyEdge_linked /\ Len(inputs.PolyEdge) = 2
    /\ outputs.Vertices = [set |-> TRUE, data |-> <<(<<FixedBatch(3)[2], FixedBatch(3)[1]>>)>>]
    /\ outputs.ItemOrder = [set |-> TRUE, data |-> <<(<<1, 0>>)>>]
    /\ outputs.PolyEdge = [set |-> TRUE, data |-> <<(<<(<<1, 1>>)>>)>>]

====
